---- MODULE Spec2Model ----
(***************************************************************************)
(* Galdr desktop front end (Electron + React): the client-side state       *)
(* machines of the service managers, of the views that drive them and of   *)
(* the Electron shell.  The backend (REST API, WebSocket / Socket.IO event *)
(* stream) is the environment: it answers calls and emits events.          *)
(*                                                                         *)
(* The subsystems do not share state, so each has its own specification    *)
(* over its own variables; the variables of the other subsystems are left  *)
(* unchanged.                                                              *)
(***************************************************************************)
EXTENDS Integers, Sequences, FiniteSets, TLC

VARIABLES
    \* ---- WebSocket managers (Crawler / Recon / Spider / Cartographer) ----
    mgr,            \* which manager class this instance is
    sockets,        \* socket object -> "free" | "connecting" | "open" |
                    \*   "closing" (close() on an open one) | "aborting" (on a connecting one)
    websocket,      \* this.websocket: a socket object, or NoSocket (null)
    isConnected,    \* this.isConnected
    timers,         \* pending setTimeout(..., 3000) reconnect callbacks
    backendUp,      \* environment: does ws://localhost:8081 accept connections
    nDisconnects,   \* calls of disconnect() so far
    callbacks,      \* event class -> sequence of registered callbacks
    nRegistered,    \* registrations so far (each registration is a new closure)
    lastMsg,        \* the last parsed message handed to handleWebSocketMessage
    calls,          \* the callback invocations that message caused, in order
    msgTick,        \* flips at every parsed message
    \* ---- ProxyManager (Socket.IO) and the App state it feeds ----
    pmSocket,       \* "connecting" | "connected" | "closed"
    pmAttempts,     \* failed connection attempts in a row
    pmEmitted,      \* get_proxy_status emits so far
    pmHandlers,     \* are onStatusUpdate / onNewTraffic / onError assigned
    proxyStatus,    \* App.proxyStatus
    httpCalls,      \* start / stop calls whose fetch has not settled
    pmEvent,        \* the handler or method that ran last
    prevStatus,     \* App.proxyStatus before it ran
    \* ---- the manager objects of the renderer ----
    built,          \* manager class -> the object its constructor made, or Absent
    \* ---- Raider component, RaiderManager calls, raider events ----
    rdVariant,      \* which of the three Raider.tsx sources is running
    attackType,     \* Raider.attackType (the select)
    activeAttackId, \* Raider.activeAttackId, or NoAttack (null)
    isAttacking,    \* Raider.isAttacking
    results,        \* Raider.results
    subscribedId,   \* the activeAttackId captured by the subscribed handlers
    launch,         \* launch attempt -> "unused" | "sent" | "ok" | "failed" | "done"
    launchType,     \* launch attempt -> attack_type of the request sent
    stopCall,       \* <<state, attack id>> of the stopAttack call in flight
    bkAttack,       \* backend: attack -> "none" | "running" | "finished"
    statusEmitted,  \* attacks whose raider_attack_status the backend has emitted
    nResultEvents,  \* raider_result_update events emitted so far
    \* ---- Electron main process (InterceptorGUI) and preload bridge ----
    platform,       \* process.platform
    appState,       \* "starting" | "ready" (the whenReady callback has run) | "quit"
    elWindows,      \* BrowserWindow.getAllWindows().length
    mainWindow,     \* InterceptorGUI.mainWindow: "null" | "live" | "destroyed"
    appMenu,        \* channels of the application menu's items
    ipcHandlers,    \* channels with an ipcMain.handle handler
    menuSent,       \* channels sent to the renderer so far
    invokeResult,   \* invoked channel -> "none" | "resolved" | "rejected"
    elEvent,        \* the last main-process event and its outcome
    \* ---- Recon component (on a ReconManager), recon calls and events ----
    currentView,    \* Recon.currentView
    currentScanId,  \* Recon.currentScanId, or NoScan (null)
    scanProgress,   \* Recon.scanProgress: the scan it is about, or NoScan (null)
    scanResults,    \* Recon.scanResults: the scan it is about, or NoScan (null)
    scanHistory,    \* Recon.scanHistory: the scans listed
    isScanning,     \* Recon.isScanning
    effectView,     \* the currentView of the render whose effect ran last
    capturedViews,  \* the currentView values captured by the registered callbacks
    historyLoad,    \* is a getReconHistory call in flight
    startCall,      \* scan attempt -> "unused" | "sent" | "ok" | "failed" | "done"
    stopScanCall,   \* <<state, scan id>> of the stopReconnaissance call in flight
    viewCall,       \* <<state, scan id>> of the getReconResults call in flight
    bkScan,         \* backend: scan -> "none" | "running" | "done" | "failed" | "stopped"
    completeSent,   \* scans whose recon_complete went out on a connection
    \* ---- App (views, traffic list, hand-off of requests) and TrafficViewer ----
    appVariant,     \* which of the two App.tsx sources is running
    appView,        \* App.currentView
    traffic,        \* App.traffic: sequence of traffic items (index 1 is [0])
    selectedRequest,\* App.selectedRequest, or NoRequest (null)
    requestForReplay, \* App.requestForReplay / requestToSend, or NoRequest (null)
    requestForRaider, \* App.requestForRaider, or NoRequest (null)
    consumeDue,     \* has the consume effect still to run for the last render
    initialLoad,    \* getInitialTraffic: "pending" | "done" | "failed"
    clearCall,      \* is a clearTraffic call in flight
    isLive,         \* TrafficViewer.isLive
    searchTerm,     \* TrafficViewer.searchTerm
    bkStore,        \* backend: the traffic items it holds
    nIntercepted,   \* backend: items intercepted so far (the newest item's id)
    appEvent,       \* the App / TrafficViewer handler that ran last
    \* ---- ActiveSpider component (on a SpiderManager), spider calls and events ----
    onScreen,       \* the module on screen: "spider" | "recon"
    spiderView,     \* ActiveSpider.currentView
    currentSessionId, \* ActiveSpider.currentSessionId, or NoSession (null)
    isSpiderActive, \* ActiveSpider.isSpiderActive
    spiderProgress, \* ActiveSpider.spiderProgress: the session it is about, or NoSession
    spiderSession,  \* ActiveSpider.spiderSession: <<session, status>>, or NoSpiderSession
    sessionCall,    \* start attempt -> "unused" | "sent" | "ok" | "failed" | "done"
    stopSessionCall,\* <<state, session id>> of the stopSpiderSession call in flight
    bkSession,      \* backend: session -> "none" | "running" | "completed" | "stopped" | "error"
    spiderStartFailed,\* has handleStartSpider's catch run since the application started
    \* ---- ReplayForge component, RequestTabs, replay calls ----
    rfVariant,      \* which of the two ReplayForge.tsx sources is running
    initialRequest, \* the prop initialRequest (fixed while the component is mounted)
    tabs,           \* ReplayForge.tabs: sequence of tab ids
    activeTabId,    \* ReplayForge.activeTabId, or NoTab (null)
    requests,       \* ReplayForge.requests: tab id -> request
    responses,      \* ReplayForge.responses: tab id -> response or NullResponse
    loadingTabs,    \* ReplayForge.loadingTabs: tab id -> BOOLEAN
    effectLen,      \* tabs.length of the render whose initial-tab effect ran last
    createCall,     \* createTab call -> [state, origin, request]
    sendCall,       \* tab id -> "none" | "sent" | "ok" | "failed": its sendRequest call
    rfEvent         \* the props the last click on the tab bar called, in order,
                    \* each with the activeTabId the click found

wsVars == <<mgr, sockets, websocket, isConnected, timers, backendUp,
            nDisconnects, callbacks, nRegistered, lastMsg, calls, msgTick>>

proxyVars == <<pmSocket, pmAttempts, pmEmitted, pmHandlers, proxyStatus,
               httpCalls, pmEvent, prevStatus>>

mgrVars == <<built>>

raiderVars == <<rdVariant, attackType, activeAttackId, isAttacking, results,
                subscribedId, launch, launchType, stopCall, bkAttack,
                statusEmitted, nResultEvents>>

electronVars == <<platform, appState, elWindows, mainWindow, appMenu, ipcHandlers,
                  menuSent, invokeResult, elEvent>>

reconVars == <<currentView, currentScanId, scanProgress, scanResults, scanHistory,
               isScanning, effectView, capturedViews, historyLoad, startCall,
               stopScanCall, viewCall, bkScan, completeSent>>

appVars == <<appVariant, appView, traffic, selectedRequest, requestForReplay,
             requestForRaider, consumeDue, initialLoad, clearCall, isLive,
             searchTerm, bkStore, nIntercepted, appEvent>>

spiderVars == <<onScreen, spiderView, currentSessionId, isSpiderActive, spiderProgress,
                spiderSession, sessionCall, stopSessionCall, bkSession,
                spiderStartFailed>>

replayVars == <<rfVariant, initialRequest, tabs, activeTabId, requests, responses,
                loadingTabs, effectLen, createCall, sendCall, rfEvent>>

vars == <<wsVars, proxyVars, mgrVars, raiderVars, electronVars, reconVars, appVars,
         spiderVars,
         replayVars>>

\* Frames: for the actions of one subsystem, everything that is not theirs.
NotWS == <<proxyVars, mgrVars, raiderVars, electronVars, reconVars, appVars,
    spiderVars,
    replayVars>>
NotProxy == <<wsVars, mgrVars, raiderVars, electronVars, reconVars, appVars,
    spiderVars,
    replayVars>>
NotMgr == <<wsVars, proxyVars, raiderVars, electronVars, reconVars, appVars,
    spiderVars,
    replayVars>>
NotRaider == <<wsVars, proxyVars, mgrVars, electronVars, reconVars, appVars,
    spiderVars,
    replayVars>>
NotElectron == <<wsVars, proxyVars, mgrVars, raiderVars, reconVars, appVars,
    spiderVars,
    replayVars>>
NotApp == <<wsVars, proxyVars, mgrVars, raiderVars, electronVars, reconVars,
    spiderVars,
    replayVars>>
NotSpider == <<wsVars, proxyVars, mgrVars, raiderVars, electronVars,
    reconVars, appVars,
    replayVars>>
NotReplay == <<wsVars, proxyVars, mgrVars, raiderVars, electronVars,
    reconVars, appVars, spiderVars>>
\* The Recon component drives a ReconManager, so its actions frame the rest.
NotRecon == <<proxyVars, mgrVars, raiderVars, electronVars, appVars,
    spiderVars,
    replayVars>>

-----------------------------------------------------------------------------
\* Bounds of the model.
MaxSockets == 2
MaxDisconnects == 2
MaxRegistrations == 2
MaxConnects == 2
MaxAttacks == 2
MaxResultEvents == 2
MaxScans == 1
MaxInitialTraffic == 2
MaxTraffic == 3

MaxSessions == 2
MaxTabs == 2
NoSocket == 0
NoMsg == [type |-> "none"]
SocketIds == 1..MaxSockets

-----------------------------------------------------------------------------
(***************************************************************************)
(* WebSocket managers                                                      *)
(***************************************************************************)
Managers == {"crawler", "recon", "spider", "cartographer"}

\* The callback arrays each manager class declares.
EventClasses(m) ==
    CASE m = "crawler"      -> {"entry", "session", "statistics", "error"}
      [] m = "recon"        -> {"progress", "completion", "error"}
      [] m = "spider"       -> {"progress", "session", "result", "statistics", "error"}
      [] m = "cartographer" -> {"mapUpdate", "nodeUpdate", "analysis", "error"}

\* this.<class>Callbacks.forEach(callback => callback(arg))
notify(cbs, class, arg) ==
    [i \in 1..Len(cbs[class]) |->
        [class |-> class, index |-> i, callback |-> cbs[class][i], arg |-> arg]]

CrawlerHandleMutant(cbs, data) ==
    CASE data.type = "traffic_analyzed"  -> notify(cbs, "entry", data.data)
      [] data.type = "session_complete"  -> notify(cbs, "session", data.data)
                                            \o notify(cbs, "statistics", data.data)
      [] data.type = "statistics_update" -> notify(cbs, "statistics", data.data)
      [] data.type = "crawler_error"     -> notify(cbs, "error", data.data.message)
      [] OTHER -> <<>>

\* CrawlerManager.handleWebSocketMessage
CrawlerHandle(cbs, data) ==
    CASE data.type = "traffic_analyzed"  -> notify(cbs, "entry", data.data)
      [] data.type = "session_complete"  -> notify(cbs, "session", data.data)
      [] data.type = "statistics_update" -> notify(cbs, "statistics", data.data)
      [] data.type = "crawler_error"     -> notify(cbs, "error", data.data.message)
      [] OTHER -> <<>>

\* ReconManager.handleWebSocketMessage
ReconHandle(cbs, data) ==
    CASE data.type = "recon_progress" -> notify(cbs, "progress", data.data)
      [] data.type = "recon_complete" -> notify(cbs, "completion", data.data)
      [] data.type = "recon_error"    -> notify(cbs, "error", data.data.message)
      [] OTHER -> <<>>

\* SpiderManager.handleWebSocketMessage
SpiderHandle(cbs, data) ==
    CASE data.type = "spider_progress"         -> notify(cbs, "progress", data.data)
      [] data.type = "spider_result"           -> notify(cbs, "result", data.data)
      [] data.type = "spider_session_complete" -> notify(cbs, "session", data.data)
      [] data.type = "spider_statistics"       -> notify(cbs, "statistics", data.data)
      [] data.type = "spider_error"            -> notify(cbs, "error", data.data.message)
      [] OTHER -> <<>>

\* CartographerManager.handleWebSocketMessage
CartographerHandle(cbs, data) ==
    CASE data.type = "map_updated"        -> notify(cbs, "mapUpdate", data.data)
      [] data.type = "node_discovered"    -> notify(cbs, "nodeUpdate", data.data)
      [] data.type = "analysis_complete"  -> notify(cbs, "analysis", data.data)
      [] data.type = "cartographer_error" -> notify(cbs, "error", data.data.message)
      [] OTHER -> <<>>

handleWebSocketMessage(m, cbs, data) ==
    CASE m = "crawler"      -> CrawlerHandle(cbs, data)
      [] m = "recon"        -> ReconHandle(cbs, data)
      [] m = "spider"       -> SpiderHandle(cbs, data)
      [] m = "cartographer" -> CartographerHandle(cbs, data)

\* The message types the backend emits for each manager, and one it does not
\* handle.
BackendTypes(m) ==
    CASE m = "crawler"      -> {"traffic_analyzed", "session_complete",
                                "statistics_update", "crawler_error"}
      [] m = "recon"        -> {"recon_progress", "recon_complete", "recon_error"}
      [] m = "spider"       -> {"spider_progress", "spider_result",
                                "spider_session_complete", "spider_statistics",
                                "spider_error"}
      [] m = "cartographer" -> {"map_updated", "node_discovered",
                                "analysis_complete", "cartographer_error"}

\* Every manager listens on the same port (ws://localhost:8081), so each also
\* receives messages meant for another manager, and messages nobody handles.
ForeignType(m) ==
    CASE m = "crawler"      -> "recon_complete"
      [] m = "recon"        -> "spider_progress"
      [] m = "spider"       -> "traffic_analyzed"
      [] m = "cartographer" -> "spider_error"

ReceivedTypes(m) == BackendTypes(m) \cup {ForeignType(m), "heartbeat"}

Payloads == {[id |-> 1, message |-> "m1"], [id |-> 2, message |-> "m2"]}

Messages(m) == [type : ReceivedTypes(m), data : Payloads]

-----------------------------------------------------------------------------
\* Connection life cycle (identical in the four classes).

FreeSocket == CHOOSE s \in SocketIds :
                 /\ sockets[s] = "free"
                 /\ \A t \in SocketIds : sockets[t] = "free" => s <= t

\* connectWebSocket(): this.websocket = new WebSocket(...), handlers attached.
connectWebSocket ==
    /\ \E s \in SocketIds : sockets[s] = "free"
    /\ sockets' = [sockets EXCEPT ![FreeSocket] = "connecting"]
    /\ websocket' = FreeSocket

\* The timer callback: if (!this.isConnected) this.connectWebSocket()
ReconnectIfDownMutant ==
    IF isConnected
    THEN connectWebSocket
    ELSE UNCHANGED <<sockets, websocket>>

ReconnectIfDown ==
    IF ~isConnected
    THEN connectWebSocket
    ELSE UNCHANGED <<sockets, websocket>>

\* websocket.onclose: isConnected = false; setTimeout(reconnect, 3000)
onclose(s) ==
    /\ sockets' = [sockets EXCEPT ![s] = "free"]
    /\ isConnected' = FALSE
    /\ timers' = timers + 1
    /\ UNCHANGED <<mgr, websocket, backendUp, nDisconnects, callbacks,
                   nRegistered, lastMsg, calls, msgTick>>
    /\ UNCHANGED NotWS

\* websocket.onopen
SocketOpen(s) ==
    /\ sockets[s] = "connecting"
    /\ backendUp
    /\ sockets' = [sockets EXCEPT ![s] = "open"]
    /\ isConnected' = TRUE
    /\ UNCHANGED <<mgr, websocket, timers, backendUp, nDisconnects, callbacks,
                   nRegistered, lastMsg, calls, msgTick>>
    /\ UNCHANGED NotWS

\* The connection attempt fails: the browser fires close on the socket.
ConnectFail(s) ==
    /\ sockets[s] = "connecting"
    /\ ~backendUp
    /\ onclose(s)

\* The close started by close() completes.
CloseComplete(s) ==
    /\ sockets[s] \in {"closing", "aborting"}
    /\ onclose(s)

\* The server or the network drops an open connection.
ConnectionLost(s) ==
    /\ sockets[s] = "open"
    /\ onclose(s)

\* The 3000 ms timer fires.
TimerFire ==
    /\ timers > 0
    /\ timers' = timers - 1
    /\ ReconnectIfDown
    /\ UNCHANGED <<mgr, isConnected, backendUp, nDisconnects, callbacks,
                   nRegistered, lastMsg, calls, msgTick>>
    /\ UNCHANGED NotWS

\* disconnect(): if (this.websocket) { this.websocket.close(); this.websocket = null }
disconnectEffect ==
    IF websocket # NoSocket
    THEN /\ sockets' = [sockets EXCEPT ![websocket] =
                 CASE @ = "open" -> "closing"
                   [] @ = "connecting" -> "aborting"
                   [] OTHER -> @]
         /\ websocket' = NoSocket
    ELSE UNCHANGED <<sockets, websocket>>

Disconnect ==
    /\ nDisconnects < MaxDisconnects
    /\ nDisconnects' = nDisconnects + 1
    /\ disconnectEffect
    /\ UNCHANGED <<mgr, isConnected, timers, backendUp, callbacks,
                   nRegistered, lastMsg, calls, msgTick>>
    /\ UNCHANGED NotWS

BackendDown ==
    /\ backendUp
    /\ backendUp' = FALSE
    /\ UNCHANGED <<mgr, sockets, websocket, isConnected, timers, nDisconnects,
                   callbacks, nRegistered, lastMsg, calls, msgTick>>
    /\ UNCHANGED NotWS

BackendUp ==
    /\ ~backendUp
    /\ backendUp' = TRUE
    /\ UNCHANGED <<mgr, sockets, websocket, isConnected, timers, nDisconnects,
                   callbacks, nRegistered, lastMsg, calls, msgTick>>
    /\ UNCHANGED NotWS

\* onEntry / onSession / onProgress / ... : this.<class>Callbacks.push(callback)
On(class) ==
    /\ class \in EventClasses(mgr)
    /\ nRegistered < MaxRegistrations
    /\ nRegistered' = nRegistered + 1
    /\ callbacks' = [callbacks EXCEPT ![class] = Append(@, nRegistered + 1)]
    /\ UNCHANGED <<mgr, sockets, websocket, isConnected, timers, backendUp,
                   nDisconnects, lastMsg, calls, msgTick>>
    /\ UNCHANGED NotWS

\* websocket.onmessage with a message that parses: handleWebSocketMessage(data)
OnMessage(data) ==
    /\ \E s \in SocketIds : sockets[s] \in {"open", "closing"}
    /\ lastMsg' = data
    /\ calls' = handleWebSocketMessage(mgr, callbacks, data)
    /\ msgTick' = ~msgTick
    /\ UNCHANGED <<mgr, sockets, websocket, isConnected, timers, backendUp,
                   nDisconnects, callbacks, nRegistered>>
    /\ UNCHANGED NotWS

\* The constructor calls connectWebSocket().
InitWS ==
    /\ mgr \in Managers
    /\ sockets = [s \in SocketIds |-> IF s = 1 THEN "connecting" ELSE "free"]
    /\ websocket = 1
    /\ isConnected = FALSE
    /\ timers = 0
    /\ backendUp \in BOOLEAN
    /\ nDisconnects = 0
    /\ callbacks = [c \in EventClasses(mgr) |-> <<>>]
    /\ nRegistered = 0
    /\ lastMsg = NoMsg
    /\ calls = <<>>
    /\ msgTick = FALSE


NextConn ==
    \/ \E s \in SocketIds : SocketOpen(s)
    \/ \E s \in SocketIds : ConnectFail(s)
    \/ \E s \in SocketIds : CloseComplete(s)
    \/ \E s \in SocketIds : ConnectionLost(s)
    \/ TimerFire
    \/ Disconnect
    \/ BackendDown
    \/ BackendUp

NextWS ==
    \/ \E s \in SocketIds : SocketOpen(s)
    \/ \E s \in SocketIds : ConnectFail(s)
    \/ \E s \in SocketIds : CloseComplete(s)
    \/ \E s \in SocketIds : ConnectionLost(s)
    \/ TimerFire
    \/ Disconnect
    \/ BackendDown
    \/ BackendUp
    \/ \E c \in EventClasses(mgr) : On(c)
    \/ \E data \in Messages(mgr) : OnMessage(data)

-----------------------------------------------------------------------------
(***************************************************************************)
(* ProxyManager (Socket.IO singleton) and App                              *)
(***************************************************************************)
ProxyStatus == {"stopped", "starting", "running", "error"}

\* io(API_BASE_URL, { reconnectionAttempts: 5, ... })
ReconnectionAttempts == 5

\* A component handler ran: remember which, and the status it found.
Ran(event, detail) ==
    /\ pmEvent' = <<event, detail>>
    /\ prevStatus' = proxyStatus

\* if (this.onStatusUpdate) this.onStatusUpdate(status), with App's handler
\* (status) => setProxyStatus(status)
ReportStatus(status) ==
    IF pmHandlers
    THEN proxyStatus' = status
    ELSE UNCHANGED proxyStatus

\* socket.on('connect'): this.socket.emit('get_proxy_status')
PMConnect ==
    /\ pmSocket = "connecting"
    /\ pmEmitted < MaxConnects
    /\ pmSocket' = "connected"
    /\ pmAttempts' = 0
    /\ pmEmitted' = pmEmitted + 1
    /\ Ran("connect", "")
    /\ UNCHANGED <<pmHandlers, proxyStatus, httpCalls>>
    /\ UNCHANGED NotProxy

\* socket.on('connect_error'): onError(err.message); Socket.IO retries, and
\* gives up after reconnectionAttempts failures.
PMConnectError ==
    /\ pmSocket = "connecting"
    /\ pmAttempts' = pmAttempts + 1
    /\ pmSocket' = IF pmAttempts' > ReconnectionAttempts THEN "closed" ELSE "connecting"
    /\ Ran("connect_error", "")
    /\ UNCHANGED <<pmEmitted, pmHandlers, proxyStatus, httpCalls>>
    /\ UNCHANGED NotProxy

PMDisconnectMutant ==
    /\ pmSocket = "connected"
    /\ pmSocket' = "connecting"
    /\ Ran("disconnect", "")
    /\ UNCHANGED <<pmAttempts, pmEmitted, pmHandlers, proxyStatus, httpCalls>>
    /\ UNCHANGED NotProxy

\* socket.on('disconnect'): onStatusUpdate('stopped'); Socket.IO reconnects.
PMDisconnect ==
    /\ pmSocket = "connected"
    /\ pmSocket' = "connecting"
    /\ ReportStatus("stopped")
    /\ Ran("disconnect", "")
    /\ UNCHANGED <<pmAttempts, pmEmitted, pmHandlers, httpCalls>>
    /\ UNCHANGED NotProxy

\* socket.on('status_update', data): onStatusUpdate(data.status)
PMStatusUpdate(status) ==
    /\ pmSocket = "connected"
    /\ ReportStatus(status)
    /\ Ran("status_update", status)
    /\ UNCHANGED <<pmSocket, pmAttempts, pmEmitted, pmHandlers, httpCalls>>
    /\ UNCHANGED NotProxy

\* App's mount effect assigns proxyManager.onStatusUpdate / onNewTraffic / onError.
AppMount ==
    /\ ~pmHandlers
    /\ pmHandlers' = TRUE
    /\ Ran("mount", "")
    /\ UNCHANGED <<pmSocket, pmAttempts, pmEmitted, proxyStatus, httpCalls>>
    /\ UNCHANGED NotProxy

StartProxyMutant ==
    /\ pmHandlers
    /\ proxyStatus \notin {"running", "starting"}
    /\ "start" \notin httpCalls
    /\ httpCalls' = httpCalls \cup {"start"}
    /\ proxyStatus' = "starting"
    /\ Ran("startProxy", "start")
    /\ UNCHANGED <<pmSocket, pmAttempts, pmEmitted, pmHandlers>>
    /\ UNCHANGED NotProxy

\* Dashboard's Start button (shown unless running, disabled while starting):
\* handleStartProxy -> proxyManager.startProxy(): await fetch(POST /api/proxy/start)
StartProxy ==
    /\ pmHandlers
    /\ proxyStatus \notin {"running", "starting"}
    /\ "start" \notin httpCalls
    /\ httpCalls' = httpCalls \cup {"start"}
    /\ Ran("startProxy", "start")
    /\ UNCHANGED <<pmSocket, pmAttempts, pmEmitted, pmHandlers, proxyStatus>>
    /\ UNCHANGED NotProxy

\* Dashboard's Stop button (shown while running):
\* handleStopProxy -> proxyManager.stopProxy(): await fetch(POST /api/proxy/stop)
StopProxy ==
    /\ pmHandlers
    /\ proxyStatus = "running"
    /\ "stop" \notin httpCalls
    /\ httpCalls' = httpCalls \cup {"stop"}
    /\ Ran("stopProxy", "stop")
    /\ UNCHANGED <<pmSocket, pmAttempts, pmEmitted, pmHandlers, proxyStatus>>
    /\ UNCHANGED NotProxy

\* The fetch settles: a 2xx or an HTTP error resolves the promise (response.ok is
\* not looked at), a network error rejects it into .catch(console.error).
HttpOutcomes == {"http_ok", "http_error", "network_error"}

HttpSettled(call, outcome) ==
    /\ call \in httpCalls
    /\ httpCalls' = httpCalls \ {call}
    /\ Ran(outcome, call)
    /\ UNCHANGED <<pmSocket, pmAttempts, pmEmitted, pmHandlers, proxyStatus>>
    /\ UNCHANGED NotProxy

\* The module is loaded: the singleton is constructed, io() starts connecting.
InitProxy ==
    /\ pmSocket = "connecting"
    /\ pmAttempts = 0
    /\ pmEmitted = 0
    /\ pmHandlers = FALSE
    /\ proxyStatus = "stopped"
    /\ httpCalls = {}
    /\ pmEvent = <<"none", "">>
    /\ prevStatus = "stopped"

NextProxy ==
    \/ PMConnect
    \/ PMConnectError
    \/ PMDisconnect
    \/ \E status \in ProxyStatus : PMStatusUpdate(status)
    \/ AppMount
    \/ StartProxy
    \/ StopProxy
    \/ \E call \in {"start", "stop"}, outcome \in HttpOutcomes : HttpSettled(call, outcome)

-----------------------------------------------------------------------------
(***************************************************************************)
(* The eight manager classes: what constructing one does                   *)
(***************************************************************************)
ManagerClasses == {"proxy", "crawler", "spider", "recon", "replayforge",
                   "raider", "cartographer", "portal"}

Absent == [connection |-> "absent", registration |-> {}, handlerFields |-> {}, rest |-> {}]

OpensConnectionMutant(m) ==
    CASE m = "proxy" -> "socket.io"
      [] m \in {"crawler", "spider", "recon", "cartographer", "replayforge"} -> "websocket"
      [] OTHER -> "none"

\* What the constructor opens: io(API_BASE_URL, ...) in ProxyManager,
\* this.connectWebSocket() in the four WebSocket managers, nothing in the
\* classes that declare no constructor.
OpensConnection(m) ==
    CASE m = "proxy" -> "socket.io"
      [] m \in {"crawler", "spider", "recon", "cartographer"} -> "websocket"
      [] OTHER -> "none"

\* The methods that push a callback on one of the class's callback arrays.
RegistrationMethods(m) ==
    CASE m = "crawler"      -> {"onEntry", "onSession", "onStatistics", "onError"}
      [] m = "recon"        -> {"onProgress", "onCompletion", "onError"}
      [] m = "spider"       -> {"onProgress", "onResult", "onSession", "onStatistics", "onError"}
      [] m = "cartographer" -> {"onMapUpdate", "onNodeUpdate", "onAnalysis", "onError"}
      [] OTHER -> {}

\* ProxyManager has public handler fields instead, assigned by the components.
HandlerFields(m) ==
    IF m = "proxy"
    THEN {"onStatusUpdate", "onNewTraffic", "onError", "onRaiderResult", "onRaiderStatus"}
    ELSE {}

\* The methods that wrap a REST call with fetch (two of each class).
RestMethods(m) ==
    CASE m = "proxy"        -> {"startProxy", "stopProxy"}
      [] m = "crawler"      -> {"startSession", "stopSession"}
      [] m = "spider"       -> {"startSpiderSession", "stopSpiderSession"}
      [] m = "recon"        -> {"startReconnaissance", "stopReconnaissance"}
      [] m = "replayforge"  -> {"createTab", "sendRequest"}
      [] m = "raider"       -> {"launchAttack", "stopAttack"}
      [] m = "cartographer" -> {"createSiteMap", "getSiteMapData"}
      [] m = "portal"       -> {"getConversations", "sendMessage"}

\* new <Class>Manager()
Construct(m) ==
    /\ built[m] = Absent
    /\ built' = [built EXCEPT ![m] =
                    [connection    |-> OpensConnection(m),
                     registration  |-> RegistrationMethods(m),
                     handlerFields |-> HandlerFields(m),
                     rest          |-> RestMethods(m)]]
    /\ UNCHANGED NotMgr

InitMgr == built = [m \in ManagerClasses |-> Absent]

NextMgr == \E m \in ManagerClasses : Construct(m)

-----------------------------------------------------------------------------
(***************************************************************************)
(* Raider                                                                  *)
(* Three sources of components/raider/Raider.tsx are in the repository:    *)
(*   "v2"    Raider.tsx ("Final Version 2.0", several attack types)        *)
(*   "p008"  the sniper version that listens through proxyManager fields   *)
(*   "p007"  the sniper version that listens on proxyManager.socket        *)
(* The Socket.IO connection is taken to stay up: events are not lost.      *)
(***************************************************************************)
RaiderVariants == {"v2", "p008", "p007"}
AttackIds == 1..MaxAttacks
NoAttack == 0

\* interface RaiderAttackRequest { attack_type: 'sniper'; ... }
AcceptedAttackTypes == {"sniper"}

\* The <option>s of the attack type select (v2); the sniper versions have none
\* and always send 'sniper'.
SelectableTypes(variant) ==
    IF variant = "v2"
    THEN {"sniper", "battering_ram", "pitchfork", "cluster_bomb"}
    ELSE {"sniper"}

StatusValues == {"completed", "stopped", "error"}

NextAttempt == CHOOSE n \in AttackIds :
                  launch[n] = "unused" /\ \A k \in AttackIds : launch[k] = "unused" => n <= k

\* React runs the effects still pending from the last render before it
\* renders a state update: the handlers then hold that render's activeAttackId.
FlushEffect == subscribedId' = activeAttackId

\* <select value={attackType} onChange={e => setAttackType(e.target.value)}>
SelectType(t) ==
    /\ t \in SelectableTypes(rdVariant)
    /\ t # attackType
    /\ attackType' = t
    /\ FlushEffect
    /\ UNCHANGED <<rdVariant, activeAttackId, isAttacking, results,
                   launch, launchType, stopCall, bkAttack, statusEmitted, nResultEvents>>
    /\ UNCHANGED NotRaider

\* handleLaunchAttack up to the await (the Launch button shows while
\* !isAttacking; a base request and a payload are present):
\* setIsAttacking(true); setResults([]); raiderManager.launchAttack(attackData)
LaunchAttack ==
    /\ ~isAttacking
    /\ \E n \in AttackIds : launch[n] = "unused"
    /\ isAttacking' = TRUE
    /\ results' = <<>>
    /\ launch' = [launch EXCEPT ![NextAttempt] = "sent"]
    /\ launchType' = [launchType EXCEPT ![NextAttempt] = attackType]
    /\ FlushEffect
    /\ UNCHANGED <<rdVariant, attackType, activeAttackId, stopCall,
                   bkAttack, statusEmitted, nResultEvents>>
    /\ UNCHANGED NotRaider

\* The backend answers POST /api/raider/attacks with { attack_id } ...
BackendAccept(n) ==
    /\ launch[n] = "sent"
    /\ launch' = [launch EXCEPT ![n] = "ok"]
    /\ bkAttack' = [bkAttack EXCEPT ![n] = "running"]
    /\ UNCHANGED <<rdVariant, attackType, activeAttackId, isAttacking, results,
                   subscribedId, launchType, stopCall, statusEmitted, nResultEvents>>
    /\ UNCHANGED NotRaider

\* ... or with an error (response.ok false: launchAttack throws).
BackendReject(n) ==
    /\ launch[n] = "sent"
    /\ launch' = [launch EXCEPT ![n] = "failed"]
    /\ UNCHANGED <<rdVariant, attackType, activeAttackId, isAttacking, results,
                   subscribedId, launchType, stopCall, bkAttack, statusEmitted,
                   nResultEvents>>
    /\ UNCHANGED NotRaider

\* handleLaunchAttack after the await: setActiveAttackId(attack_id) and
\* emit('join_raider_room'), or in the catch setIsAttacking(false).
LaunchSettled(n) ==
    /\ launch[n] \in {"ok", "failed"}
    /\ launch' = [launch EXCEPT ![n] = "done"]
    /\ IF launch[n] = "ok"
       THEN activeAttackId' = n /\ UNCHANGED isAttacking
       ELSE isAttacking' = FALSE /\ UNCHANGED activeAttackId
    /\ FlushEffect
    /\ UNCHANGED <<rdVariant, attackType, results, launchType,
                   stopCall, bkAttack, statusEmitted, nResultEvents>>
    /\ UNCHANGED NotRaider

\* The listener effect ([activeAttackId]) runs again after the render that
\* changed activeAttackId: the old handlers are removed, new ones capture the
\* new id.
RaiderEffect ==
    /\ subscribedId # activeAttackId
    /\ subscribedId' = activeAttackId
    /\ UNCHANGED <<rdVariant, attackType, activeAttackId, isAttacking, results,
                   launch, launchType, stopCall, bkAttack, statusEmitted, nResultEvents>>
    /\ UNCHANGED NotRaider

\* handleNewResult / handleResult:
\* if (newResult.attack_id === activeAttackId) setResults(prev => [...prev, newResult])
handleNewResult(a, number) ==
    IF a = subscribedId
    THEN /\ results' = Append(results, [attack_id |-> a, request_number |-> number])
         /\ FlushEffect
    ELSE UNCHANGED <<results, subscribedId>>

\* The backend emits raider_result_update for a running attack.
RaiderResult(a) ==
    /\ bkAttack[a] = "running"
    /\ nResultEvents < MaxResultEvents
    /\ nResultEvents' = nResultEvents + 1
    /\ handleNewResult(a, nResultEvents + 1)
    /\ UNCHANGED <<rdVariant, attackType, activeAttackId, isAttacking,
                   launch, launchType, stopCall, bkAttack, statusEmitted>>
    /\ UNCHANGED NotRaider

\* handleStatusChange / handleStatus of the three sources.
handleStatusChange(a, status) ==
    CASE rdVariant = "v2" ->
            IF a = subscribedId
            THEN isAttacking' = FALSE /\ UNCHANGED activeAttackId /\ FlushEffect
            ELSE UNCHANGED <<isAttacking, activeAttackId, subscribedId>>
      [] rdVariant = "p008" ->
            IF a = subscribedId
            THEN isAttacking' = FALSE /\ activeAttackId' = NoAttack /\ FlushEffect
            ELSE UNCHANGED <<isAttacking, activeAttackId, subscribedId>>
      [] rdVariant = "p007" ->
            IF a = subscribedId /\ status = "completed"
            THEN isAttacking' = FALSE /\ activeAttackId' = NoAttack /\ FlushEffect
            ELSE UNCHANGED <<isAttacking, activeAttackId, subscribedId>>

\* The backend emits raider_attack_status for a running attack, which ends it.
RaiderStatus(a, status) ==
    /\ bkAttack[a] = "running"
    /\ bkAttack' = [bkAttack EXCEPT ![a] = "finished"]
    /\ statusEmitted' = statusEmitted \cup {a}
    /\ handleStatusChange(a, status)
    /\ UNCHANGED <<rdVariant, attackType, results, launch, launchType,
                   stopCall, nResultEvents>>
    /\ UNCHANGED NotRaider

\* handleStopAttack up to the await (the Stop button shows while isAttacking;
\* in v2 its onClick is () => {}): if (!activeAttackId) return;
\* raiderManager.stopAttack(activeAttackId)
StopAttack ==
    /\ rdVariant # "v2"
    /\ isAttacking
    /\ activeAttackId # NoAttack
    /\ stopCall[1] = "none"
    /\ stopCall' = <<"sent", activeAttackId>>
    /\ UNCHANGED <<rdVariant, attackType, activeAttackId, isAttacking, results,
                   subscribedId, launch, launchType, bkAttack, statusEmitted,
                   nResultEvents>>
    /\ UNCHANGED NotRaider

\* handleStopAttack after the await: setIsAttacking(false);
\* setActiveAttackId(null), or in the catch nothing.
StopSettled(ok) ==
    /\ stopCall[1] = "sent"
    /\ stopCall' = <<"none", NoAttack>>
    /\ IF ok
       THEN isAttacking' = FALSE /\ activeAttackId' = NoAttack /\ FlushEffect
       ELSE UNCHANGED <<isAttacking, activeAttackId, subscribedId>>
    /\ UNCHANGED <<rdVariant, attackType, results, launch, launchType,
                   bkAttack, statusEmitted, nResultEvents>>
    /\ UNCHANGED NotRaider

\* The component is mounted: its state initialisers, the first effect run.
InitRaider ==
    /\ rdVariant \in RaiderVariants
    /\ attackType = "sniper"
    /\ activeAttackId = NoAttack
    /\ isAttacking = FALSE
    /\ results = <<>>
    /\ subscribedId = NoAttack
    /\ launch = [n \in AttackIds |-> "unused"]
    /\ launchType = [n \in AttackIds |-> "sniper"]
    /\ stopCall = <<"none", NoAttack>>
    /\ bkAttack = [n \in AttackIds |-> "none"]
    /\ statusEmitted = {}
    /\ nResultEvents = 0

NextRaider ==
    \/ \E t \in SelectableTypes("v2") : SelectType(t)
    \/ LaunchAttack
    \/ \E n \in AttackIds : BackendAccept(n)
    \/ \E n \in AttackIds : BackendReject(n)
    \/ \E n \in AttackIds : LaunchSettled(n)
    \/ RaiderEffect
    \/ \E a \in AttackIds : RaiderResult(a)
    \/ \E a \in AttackIds, status \in StatusValues : RaiderStatus(a, status)
    \/ StopAttack
    \/ \E ok \in BOOLEAN : StopSettled(ok)

-----------------------------------------------------------------------------
(***************************************************************************)
(* Electron main process and preload bridge                                *)
(***************************************************************************)
Platforms == {"darwin", "win32", "linux"}

\* The channels of the menu items that send to the renderer (setupMenu).
MenuChannels == {"menu-new-project", "menu-import-traffic", "menu-start-proxy",
                 "menu-stop-proxy", "menu-clear-history"}

SetupIPCMutant == {"get-app-version"}

\* The channels setupIPC registers with ipcMain.handle.
SetupIPC == {"get-app-version", "show-save-dialog"}

\* preload: the channels electronAPI invokes, and the channels it exposes a
\* listener-registration function for.
PreloadInvokes == {"get-app-version", "show-save-dialog"}
PreloadListeners == {"menu-new-project", "menu-import-traffic", "menu-start-proxy",
                     "menu-stop-proxy", "menu-clear-history"}

NoWindowOpenMutant == TRUE

\* BrowserWindow.getAllWindows().length === 0
NoWindowOpen == elWindows = 0

\* createMainWindow: this.mainWindow = new BrowserWindow(...)
createMainWindow ==
    /\ elWindows' = elWindows + 1
    /\ mainWindow' = "live"

\* app.whenReady().then(() => { createMainWindow(); setupMenu(); setupIPC() })
WhenReady ==
    /\ appState = "starting"
    /\ appState' = "ready"
    /\ createMainWindow
    /\ appMenu' = MenuChannels
    /\ ipcHandlers' = SetupIPC
    /\ elEvent' = <<"ready", "created">>
    /\ UNCHANGED <<platform, menuSent, invokeResult>>
    /\ UNCHANGED NotElectron

\* The user closes the window.  When it was the last one Electron emits
\* 'window-all-closed': if (process.platform !== 'darwin') app.quit()
CloseWindow ==
    /\ appState = "ready"
    /\ elWindows > 0
    /\ elWindows' = elWindows - 1
    /\ mainWindow' = "destroyed"
    /\ IF elWindows' = 0
       THEN /\ appState' = IF platform # "darwin" THEN "quit" ELSE appState
            /\ elEvent' = <<"window-all-closed", appState'>>
       ELSE /\ UNCHANGED appState
            /\ elEvent' = <<"closed", appState>>
    /\ UNCHANGED <<platform, appMenu, ipcHandlers, menuSent, invokeResult>>
    /\ UNCHANGED NotElectron

\* app.on('activate'): if (getAllWindows().length === 0) createMainWindow().
\* Before the app is ready new BrowserWindow throws and no window is made.
Activate ==
    /\ appState # "quit"
    /\ platform = "darwin"
    /\ IF NoWindowOpen /\ appState = "ready"
       THEN createMainWindow /\ elEvent' = <<"activate", "created">>
       ELSE /\ UNCHANGED <<elWindows, mainWindow>>
            /\ elEvent' = <<"activate", IF NoWindowOpen THEN "threw" ELSE "none">>
    /\ UNCHANGED <<platform, appState, appMenu, ipcHandlers, menuSent, invokeResult>>
    /\ UNCHANGED NotElectron

\* A menu item's click: this.mainWindow?.webContents.send(channel).  A
\* BrowserWindow that was closed is destroyed and its webContents throws.
MenuClick(channel) ==
    /\ appState = "ready"
    /\ channel \in appMenu
    /\ IF mainWindow = "live"
       THEN menuSent' = menuSent \cup {channel} /\ elEvent' = <<"menu", "sent">>
       ELSE UNCHANGED menuSent /\ elEvent' = <<"menu", "threw">>
    /\ UNCHANGED <<platform, appState, elWindows, mainWindow, appMenu, ipcHandlers,
                   invokeResult>>
    /\ UNCHANGED NotElectron

\* Exit menu item (Cmd+Q / Ctrl+Q): app.quit() closes every window without
\* emitting 'window-all-closed'.
MenuExit ==
    /\ appState = "ready"
    /\ appState' = "quit"
    /\ elWindows' = 0
    /\ mainWindow' = "destroyed"
    /\ elEvent' = <<"exit", "quit">>
    /\ UNCHANGED <<platform, appMenu, ipcHandlers, menuSent, invokeResult>>
    /\ UNCHANGED NotElectron

\* The renderer of the open window calls electronAPI.getAppVersion() or
\* showSaveDialog(): ipcRenderer.invoke(channel) resolves with the handler's
\* value, or rejects when no handler is registered for the channel.
Invoke(channel) ==
    /\ appState = "ready"
    /\ mainWindow = "live"
    /\ channel \in PreloadInvokes
    /\ invokeResult' = [invokeResult EXCEPT ![channel] =
                            IF channel \in ipcHandlers THEN "resolved" ELSE "rejected"]
    /\ elEvent' = <<"invoke", channel>>
    /\ UNCHANGED <<platform, appState, elWindows, mainWindow, appMenu, ipcHandlers,
                   menuSent>>
    /\ UNCHANGED NotElectron

\* new InterceptorGUI(): initializeApp has registered the three callbacks.
InitElectron ==
    /\ platform \in Platforms
    /\ appState = "starting"
    /\ elWindows = 0
    /\ mainWindow = "null"
    /\ appMenu = {}
    /\ ipcHandlers = {}
    /\ menuSent = {}
    /\ invokeResult = [c \in PreloadInvokes |-> "none"]
    /\ elEvent = <<"none", "none">>

NextElectron ==
    \/ WhenReady
    \/ CloseWindow
    \/ Activate
    \/ \E channel \in MenuChannels : MenuClick(channel)
    \/ MenuExit
    \/ \E channel \in PreloadInvokes : Invoke(channel)

-----------------------------------------------------------------------------
(***************************************************************************)
(* Recon component on a ReconManager                                       *)
(* The manager's connection is the one of the WebSocket section (mgr =     *)
(* "recon"); the backend stays up and never drops a connection, so every   *)
(* close is the component's own.                                           *)
(***************************************************************************)
ReconViews == {"new_scan", "progress", "results", "history", "config"}
NavViews == {"new_scan", "history", "config"}
ScanIds == 1..MaxScans
NoScan == 0

\* The manager state the component's actions leave alone.
ReconMgrRest == <<mgr, isConnected, timers, backendUp, nDisconnects, callbacks,
                  nRegistered, lastMsg, calls, msgTick>>

NextScan == CHOOSE n \in ScanIds :
               startCall[n] = "unused" /\ \A k \in ScanIds : startCall[k] = "unused" => n <= k

\* The effect of a render with currentView = view runs: the cleanup of the
\* previous run calls reconManager.disconnect(), then onProgress,
\* onCompletion and onError push callbacks that capture view, and
\* loadScanHistory() is called.
RunEffect(view, pending) ==
    /\ disconnectEffect
    /\ effectView' = view
    /\ capturedViews' = capturedViews \cup {view} \cup pending
    /\ historyLoad' = TRUE

\* useEffect(..., [reconManager, currentView]) after a render that an
\* asynchronous update (a response, a socket message) caused.
ReconEffect ==
    /\ effectView # currentView
    /\ RunEffect(currentView, {})
    /\ UNCHANGED <<currentView, currentScanId, scanProgress, scanResults, scanHistory,
                   isScanning, startCall, stopScanCall, viewCall, bkScan, completeSent>>
    /\ UNCHANGED ReconMgrRest
    /\ UNCHANGED NotRecon

\* The navigation buttons and onNewScan: setCurrentView(view).  A click's
\* render and effects are flushed before the click returns (a pending effect
\* first).
Navigate(view) ==
    /\ view \in NavViews
    /\ view # currentView
    /\ currentView' = view
    /\ RunEffect(view, IF effectView # currentView THEN {currentView} ELSE {})
    /\ UNCHANGED <<currentScanId, scanProgress, scanResults, scanHistory, isScanning,
                   startCall, stopScanCall, viewCall, bkScan, completeSent>>
    /\ UNCHANGED ReconMgrRest
    /\ UNCHANGED NotRecon

\* loadScanHistory after the await: setScanHistory(history)
HistoryLoaded ==
    /\ historyLoad
    /\ historyLoad' = FALSE
    /\ scanHistory' = {n \in ScanIds : bkScan[n] = "done"}
    /\ UNCHANGED <<currentView, currentScanId, scanProgress, scanResults, isScanning,
                   effectView, capturedViews, startCall, stopScanCall, viewCall,
                   bkScan, completeSent>>
    /\ UNCHANGED wsVars
    /\ UNCHANGED NotRecon

\* handleStartScan up to the await (the start button of the new_scan view is
\* disabled while isScanning): setIsScanning(true); startReconnaissance(...)
StartScan ==
    /\ currentView = "new_scan"
    /\ ~isScanning
    /\ \E n \in ScanIds : startCall[n] = "unused"
    /\ isScanning' = TRUE
    /\ startCall' = [startCall EXCEPT ![NextScan] = "sent"]
    /\ UNCHANGED <<currentView, currentScanId, scanProgress, scanResults, scanHistory,
                   effectView, capturedViews, historyLoad, stopScanCall, viewCall,
                   bkScan, completeSent>>
    /\ UNCHANGED wsVars
    /\ UNCHANGED NotRecon

\* The backend answers POST /api/recon/start: the scan runs, or an error.
BackendStart(n, ok) ==
    /\ startCall[n] = "sent"
    /\ startCall' = [startCall EXCEPT ![n] = IF ok THEN "ok" ELSE "failed"]
    /\ bkScan' = IF ok THEN [bkScan EXCEPT ![n] = "running"] ELSE bkScan
    /\ UNCHANGED <<currentView, currentScanId, scanProgress, scanResults, scanHistory,
                   isScanning, effectView, capturedViews, historyLoad, stopScanCall,
                   viewCall, completeSent>>
    /\ UNCHANGED wsVars
    /\ UNCHANGED NotRecon

\* handleStartScan after the await: setCurrentScanId(scanId);
\* setCurrentView('progress'), or in the catch setIsScanning(false).
StartSettled(n) ==
    /\ startCall[n] \in {"ok", "failed"}
    /\ startCall' = [startCall EXCEPT ![n] = "done"]
    /\ IF startCall[n] = "ok"
       THEN /\ currentScanId' = n
            /\ currentView' = "progress"
            /\ UNCHANGED isScanning
       ELSE /\ isScanning' = FALSE
            /\ UNCHANGED <<currentScanId, currentView>>
    /\ UNCHANGED <<scanProgress, scanResults, scanHistory, effectView, capturedViews,
                   historyLoad, stopScanCall, viewCall, bkScan, completeSent>>
    /\ UNCHANGED wsVars
    /\ UNCHANGED NotRecon

\* handleStopScan up to the await (the progress view's stop control):
\* if (currentScanId) stopReconnaissance(currentScanId)
StopScan ==
    /\ currentView = "progress"
    /\ currentScanId # NoScan
    /\ stopScanCall[1] = "none"
    /\ stopScanCall' = <<"sent", currentScanId>>
    /\ UNCHANGED <<currentView, currentScanId, scanProgress, scanResults, scanHistory,
                   isScanning, effectView, capturedViews, historyLoad, startCall,
                   viewCall, bkScan, completeSent>>
    /\ UNCHANGED wsVars
    /\ UNCHANGED NotRecon

\* The backend answers POST /api/recon/stop/<id>, then handleStopScan after
\* the await: setIsScanning(false); setScanProgress(null);
\* setCurrentView('new_scan'), or in the catch nothing.
StopScanSettled(ok) ==
    /\ stopScanCall[1] = "sent"
    /\ stopScanCall' = <<"none", NoScan>>
    /\ IF ok
       THEN /\ bkScan' = [bkScan EXCEPT ![stopScanCall[2]] =
                              IF @ = "running" THEN "stopped" ELSE @]
            /\ isScanning' = FALSE
            /\ scanProgress' = NoScan
            /\ currentView' = "new_scan"
       ELSE UNCHANGED <<bkScan, isScanning, scanProgress, currentView>>
    /\ UNCHANGED <<currentScanId, scanResults, scanHistory, effectView, capturedViews,
                   historyLoad, startCall, viewCall, completeSent>>
    /\ UNCHANGED wsVars
    /\ UNCHANGED NotRecon

\* handleViewResults up to the await (a scan of the history view's list).
ViewResults(n) ==
    /\ currentView = "history"
    /\ n \in scanHistory
    /\ viewCall[1] = "none"
    /\ viewCall' = <<"sent", n>>
    /\ UNCHANGED <<currentView, currentScanId, scanProgress, scanResults, scanHistory,
                   isScanning, effectView, capturedViews, historyLoad, startCall,
                   stopScanCall, bkScan, completeSent>>
    /\ UNCHANGED wsVars
    /\ UNCHANGED NotRecon

\* handleViewResults after the await: setScanResults(results);
\* setCurrentView('results'), or in the catch nothing.
ViewSettled(ok) ==
    /\ viewCall[1] = "sent"
    /\ viewCall' = <<"none", NoScan>>
    /\ IF ok
       THEN scanResults' = viewCall[2] /\ currentView' = "results"
       ELSE UNCHANGED <<scanResults, currentView>>
    /\ UNCHANGED <<currentScanId, scanProgress, scanHistory, isScanning, effectView,
                   capturedViews, historyLoad, startCall, stopScanCall, bkScan,
                   completeSent>>
    /\ UNCHANGED wsVars
    /\ UNCHANGED NotRecon

\* A message the backend sends reaches the callbacks when a socket is open.
\* On a socket the client has called close() on, which the backend still
\* holds open, it may be discarded; with no socket there is nothing to send on.
OnConnection == \E s \in SocketIds : sockets[s] \in {"open", "closing"}
Deliveries ==
    {d \in BOOLEAN : /\ d => OnConnection
                     /\ (\E s \in SocketIds : sockets[s] = "open") => d}

\* recon_progress -> notifyProgress -> every onProgress callback:
\* setScanProgress(progress); if (currentView !== 'progress')
\* setCurrentView('progress'), with the currentView its closure captured.
ProgressEvent(n, delivered) ==
    /\ bkScan[n] = "running"
    /\ OnConnection
    /\ delivered \in Deliveries
    /\ IF delivered
       THEN /\ scanProgress' = n
            /\ currentView' = IF \E v \in capturedViews : v # "progress"
                              THEN "progress" ELSE currentView
       ELSE UNCHANGED <<scanProgress, currentView>>
    /\ UNCHANGED <<currentScanId, scanResults, scanHistory, isScanning, effectView,
                   capturedViews, historyLoad, startCall, stopScanCall, viewCall,
                   bkScan, completeSent>>
    /\ UNCHANGED wsVars
    /\ UNCHANGED NotRecon

\* The scan finishes.  recon_complete -> notifyCompletion -> every
\* onCompletion callback: setScanResults(result); setScanProgress(null);
\* setIsScanning(false); setCurrentView('results'); loadScanHistory()
CompleteEvent(n, delivered) ==
    /\ bkScan[n] = "running"
    /\ delivered \in Deliveries
    /\ bkScan' = [bkScan EXCEPT ![n] = "done"]
    /\ completeSent' = IF OnConnection THEN completeSent \cup {n} ELSE completeSent
    /\ IF delivered
       THEN /\ scanResults' = n
            /\ scanProgress' = NoScan
            /\ isScanning' = FALSE
            /\ currentView' = "results"
            /\ historyLoad' = TRUE
       ELSE UNCHANGED <<scanResults, scanProgress, isScanning, currentView, historyLoad>>
    /\ UNCHANGED <<currentScanId, scanHistory, effectView, capturedViews, startCall,
                   stopScanCall, viewCall>>
    /\ UNCHANGED wsVars
    /\ UNCHANGED NotRecon

\* The scan fails.  recon_error -> notifyError -> every onError callback:
\* setIsScanning(false); setScanProgress(null)
ErrorEvent(n, delivered) ==
    /\ bkScan[n] = "running"
    /\ delivered \in Deliveries
    /\ bkScan' = [bkScan EXCEPT ![n] = "failed"]
    /\ IF delivered
       THEN isScanning' = FALSE /\ scanProgress' = NoScan
       ELSE UNCHANGED <<isScanning, scanProgress>>
    /\ UNCHANGED <<currentView, currentScanId, scanResults, scanHistory, effectView,
                   capturedViews, historyLoad, startCall, stopScanCall, viewCall,
                   completeSent>>
    /\ UNCHANGED wsVars
    /\ UNCHANGED NotRecon

\* The component is mounted on a constructed manager: the useState initial
\* values, and the first effect run has registered callbacks and called
\* loadScanHistory().
InitRecon ==
    /\ currentView = "new_scan"
    /\ currentScanId = NoScan
    /\ scanProgress = NoScan
    /\ scanResults = NoScan
    /\ scanHistory = {}
    /\ isScanning = FALSE
    /\ effectView = "new_scan"
    /\ capturedViews = {"new_scan"}
    /\ historyLoad = TRUE
    /\ startCall = [n \in ScanIds |-> "unused"]
    /\ stopScanCall = <<"none", NoScan>>
    /\ viewCall = <<"none", NoScan>>
    /\ bkScan = [n \in ScanIds |-> "none"]
    /\ completeSent = {}

NextRecon ==
    \/ ReconEffect
    \/ \E view \in NavViews : Navigate(view)
    \/ HistoryLoaded
    \/ StartScan
    \/ \E n \in ScanIds, ok \in BOOLEAN : BackendStart(n, ok)
    \/ \E n \in ScanIds : StartSettled(n)
    \/ StopScan
    \/ \E ok \in BOOLEAN : StopScanSettled(ok)
    \/ \E n \in ScanIds : ViewResults(n)
    \/ \E ok \in BOOLEAN : ViewSettled(ok)
    \/ \E n \in ScanIds, delivered \in BOOLEAN : ProgressEvent(n, delivered)
    \/ \E n \in ScanIds, delivered \in BOOLEAN : CompleteEvent(n, delivered)
    \/ \E n \in ScanIds, delivered \in BOOLEAN : ErrorEvent(n, delivered)
    \/ \E s \in SocketIds : SocketOpen(s)
    \/ \E s \in SocketIds : CloseComplete(s)
    \/ TimerFire

-----------------------------------------------------------------------------
(***************************************************************************)
(* App and TrafficViewer                                                   *)
(* Two sources of App.tsx are in the repository: "two_targets" hands       *)
(* requests to Replay Forge and to Raider, "replay_only" to Replay Forge   *)
(* (its requestToSend is requestForReplay here).  A traffic item is its id, *)
(* the rank of its interception.  The Socket.IO connection is taken to     *)
(* stay up.  React runs a render's pending effects before the next render, *)
(* so no handler renders while the consume effect is due.                  *)
(***************************************************************************)
AppVariants == {"two_targets", "replay_only"}

ViewType == {"dashboard", "traffic", "recon", "crawler", "spider", "replay_forge",
             "raider", "mirror", "entropy", "cipher", "accomplice", "portal", "config"}

NoRequest == 0
\* The request of a Replay Forge tab that was seeded with the default GET.
DefaultRequest == -1
TrafficIds == 1..MaxTraffic

SearchTerms == {"", "a"}

\* item.url of a traffic item (two hosts alternate).
Url(item) == IF item % 2 = 1 THEN "a" ELSE "b"

\* url.toLowerCase().includes(term.toLowerCase()) on these values
Includes(url, term) == term = "" \/ url = term

\* [...list].reverse()
Reverse(list) == [i \in 1..Len(list) |-> list[Len(list) + 1 - i]]

\* TrafficViewer.filteredTraffic
filteredTraffic(list, live, term) ==
    LET sourceTraffic == IF live THEN Reverse(list) ELSE list
    IN  IF term = ""
        THEN sourceTraffic
        ELSE SelectSeq(sourceTraffic, LAMBDA item : Includes(Url(item), term))

\* The rows TrafficViewer shows.
Displayed == filteredTraffic(traffic, isLive, searchTerm)

\* TrafficViewer is mounted afresh (isLive true, searchTerm '') whenever the
\* traffic view is entered.
ViewerRemount(view) ==
    IF view = "traffic" /\ appView = "traffic"
    THEN UNCHANGED <<isLive, searchTerm>>
    ELSE isLive' = TRUE /\ searchTerm' = ""

\* Sidebar: onViewChange(item.id) = setCurrentView
ViewChange(view) ==
    /\ ~consumeDue
    /\ view \in ViewType
    /\ view # appView
    /\ appView' = view
    /\ ViewerRemount(view)
    /\ consumeDue' = TRUE
    /\ appEvent' = <<"view_change", view>>
    /\ UNCHANGED <<appVariant, traffic, selectedRequest, requestForReplay,
                   requestForRaider, initialLoad, clearCall, bkStore, nIntercepted>>
    /\ UNCHANGED NotApp

\* handleSendToReplayForge (the button TrafficViewer shows for the selected
\* request): setRequestForReplay(data); setCurrentView('replay_forge')
SendToReplayForge ==
    /\ ~consumeDue
    /\ appView = "traffic"
    /\ selectedRequest # NoRequest
    /\ requestForReplay' = selectedRequest
    /\ appView' = "replay_forge"
    /\ ViewerRemount("replay_forge")
    /\ consumeDue' = TRUE
    /\ appEvent' = <<"send_to_replay_forge", "">>
    /\ UNCHANGED <<appVariant, traffic, selectedRequest, requestForRaider,
                   initialLoad, clearCall, bkStore, nIntercepted>>
    /\ UNCHANGED NotApp

\* handleSendToRaider (ReplayForge's button, with the active tab's request):
\* setRequestForRaider(requestData); setCurrentView('raider')
SendToRaider ==
    /\ ~consumeDue
    /\ appVariant = "two_targets"
    /\ appView = "replay_forge"
    /\ requestForRaider' = IF requestForReplay # NoRequest
                           THEN requestForReplay ELSE DefaultRequest
    /\ appView' = "raider"
    /\ consumeDue' = TRUE
    /\ appEvent' = <<"send_to_raider", "">>
    /\ UNCHANGED <<appVariant, traffic, selectedRequest, requestForReplay,
                   initialLoad, clearCall, isLive, searchTerm, bkStore, nIntercepted>>
    /\ UNCHANGED NotApp

ConsumedMutant(view, target, request) ==
    IF view = target /\ request # NoRequest THEN NoRequest ELSE request

\* if (currentView !== target && request !== null) setRequest(null)
Consumed(view, target, request) ==
    IF view # target /\ request # NoRequest THEN NoRequest ELSE request

\* The consume effect of the last render runs.
AppEffect ==
    /\ consumeDue
    /\ requestForReplay' = Consumed(appView, "replay_forge", requestForReplay)
    /\ requestForRaider' = IF appVariant = "two_targets"
                           THEN Consumed(appView, "raider", requestForRaider)
                           ELSE requestForRaider
    /\ consumeDue' = (<<requestForReplay', requestForRaider'>>
                        # <<requestForReplay, requestForRaider>>)
    /\ appEvent' = <<"consume_effect", "">>
    /\ UNCHANGED <<appVariant, appView, traffic, selectedRequest, initialLoad,
                   clearCall, isLive, searchTerm, bkStore, nIntercepted>>
    /\ UNCHANGED NotApp

\* The items of a set, oldest first.
OldestFirst(items) ==
    [i \in 1..Cardinality(items) |->
        CHOOSE x \in items : Cardinality({y \in items : y < x}) = i - 1]

\* The orders GET /api/proxy/traffic?limit=200 may list the store in.
BackendOrders == {"newest_first", "oldest_first"}
TrafficResponse(order) ==
    IF order = "oldest_first" THEN OldestFirst(bkStore) ELSE Reverse(OldestFirst(bkStore))

\* getInitialTraffic().then(initialTraffic => setTraffic(initialTraffic.reverse()))
\* or .catch(console.error)
InitialLoadSettled(ok, order) ==
    /\ ~consumeDue
    /\ initialLoad = "pending"
    /\ initialLoad' = IF ok THEN "done" ELSE "failed"
    /\ traffic' = IF ok THEN Reverse(TrafficResponse(order)) ELSE traffic
    /\ appEvent' = <<"initial_traffic", order>>
    /\ UNCHANGED <<appVariant, appView, selectedRequest, requestForReplay,
                   requestForRaider, consumeDue, clearCall, isLive, searchTerm,
                   bkStore, nIntercepted>>
    /\ UNCHANGED NotApp

\* The proxy intercepts a request and emits new_traffic:
\* proxyManager.onNewTraffic = t => setTraffic(prev => [t, ...prev])
NewTraffic ==
    /\ ~consumeDue
    /\ nIntercepted < MaxTraffic
    /\ nIntercepted' = nIntercepted + 1
    /\ bkStore' = bkStore \cup {nIntercepted + 1}
    /\ traffic' = <<nIntercepted + 1>> \o traffic
    /\ appEvent' = <<"new_traffic", "">>
    /\ UNCHANGED <<appVariant, appView, selectedRequest, requestForReplay,
                   requestForRaider, consumeDue, initialLoad, clearCall, isLive,
                   searchTerm>>
    /\ UNCHANGED NotApp

\* TrafficViewer.handleSelectRequest (a click on a displayed row):
\* onSelectRequest(request); setIsLive(false)
SelectRequest(row) ==
    /\ ~consumeDue
    /\ appView = "traffic"
    /\ row \in 1..Len(Displayed)
    /\ selectedRequest' = Displayed[row]
    /\ isLive' = FALSE
    /\ appEvent' = <<"select_request", "">>
    /\ UNCHANGED <<appVariant, appView, traffic, requestForReplay, requestForRaider,
                   consumeDue, initialLoad, clearCall, searchTerm, bkStore, nIntercepted>>
    /\ UNCHANGED NotApp

\* The pause / resume button: setIsLive(!isLive)
ToggleLive ==
    /\ ~consumeDue
    /\ appView = "traffic"
    /\ isLive' = ~isLive
    /\ appEvent' = <<"toggle_live", "">>
    /\ UNCHANGED <<appVariant, appView, traffic, selectedRequest, requestForReplay,
                   requestForRaider, consumeDue, initialLoad, clearCall, searchTerm,
                   bkStore, nIntercepted>>
    /\ UNCHANGED NotApp

\* The search box: setSearchTerm(e.target.value)
SetSearchTerm(term) ==
    /\ ~consumeDue
    /\ appView = "traffic"
    /\ term # searchTerm
    /\ searchTerm' = term
    /\ appEvent' = <<"search", term>>
    /\ UNCHANGED <<appVariant, appView, traffic, selectedRequest, requestForReplay,
                   requestForRaider, consumeDue, initialLoad, clearCall, isLive,
                   bkStore, nIntercepted>>
    /\ UNCHANGED NotApp

\* handleClearTraffic up to the await: proxyManager.clearTraffic()
ClearTraffic ==
    /\ ~consumeDue
    /\ appView = "traffic"
    /\ ~clearCall
    /\ clearCall' = TRUE
    /\ appEvent' = <<"clear_traffic", "">>
    /\ UNCHANGED <<appVariant, appView, traffic, selectedRequest, requestForReplay,
                   requestForRaider, consumeDue, initialLoad, isLive, searchTerm,
                   bkStore, nIntercepted>>
    /\ UNCHANGED NotApp

\* The backend answers DELETE /api/proxy/traffic, then handleClearTraffic
\* after the await: setTraffic([]); setSelectedRequest(null) (a failure
\* rejects the handler's promise and nothing is set).
ClearSettled(ok) ==
    /\ ~consumeDue
    /\ clearCall
    /\ clearCall' = FALSE
    /\ IF ok
       THEN bkStore' = {} /\ traffic' = <<>> /\ selectedRequest' = NoRequest
       ELSE UNCHANGED <<bkStore, traffic, selectedRequest>>
    /\ appEvent' = <<"traffic_cleared", "">>
    /\ UNCHANGED <<appVariant, appView, requestForReplay, requestForRaider,
                   consumeDue, initialLoad, isLive, searchTerm, nIntercepted>>
    /\ UNCHANGED NotApp

\* App is mounted: the useState initial values; the mount effect has assigned
\* the proxyManager handlers and called getInitialTraffic().  The backend
\* holds the items it intercepted before.
InitApp ==
    /\ appVariant \in AppVariants
    /\ appView = "dashboard"
    /\ traffic = <<>>
    /\ selectedRequest = NoRequest
    /\ requestForReplay = NoRequest
    /\ requestForRaider = NoRequest
    /\ consumeDue = FALSE
    /\ initialLoad = "pending"
    /\ clearCall = FALSE
    /\ isLive = TRUE
    /\ searchTerm = ""
    /\ nIntercepted \in 0..MaxInitialTraffic
    /\ bkStore = 1..nIntercepted
    /\ appEvent = <<"none", "">>

NextApp ==
    \/ \E view \in ViewType : ViewChange(view)
    \/ SendToReplayForge
    \/ SendToRaider
    \/ AppEffect
    \/ \E ok \in BOOLEAN, order \in BackendOrders : InitialLoadSettled(ok, order)
    \/ NewTraffic
    \/ \E row \in TrafficIds : SelectRequest(row)
    \/ ToggleLive
    \/ \E term \in SearchTerms : SetSearchTerm(term)
    \/ ClearTraffic
    \/ \E ok \in BOOLEAN : ClearSettled(ok)

-----------------------------------------------------------------------------
(***************************************************************************)
(* ActiveSpider                                                            *)
(* The component has the shape of Recon: an optimistic start, a stop, and  *)
(* the SpiderManager's callbacks.  Its connection is not modelled: the     *)
(* effect's cleanup closes the socket at every change of currentView or    *)
(* isSpiderActive and the manager reconnects, so an event the backend      *)
(* sends is delivered or lost.  The callbacks pile up in the manager and   *)
(* the first of them captured currentView = 'dashboard'.                   *)
(***************************************************************************)
SpiderView == {"dashboard", "progress", "results", "endpoints", "forms", "config"}
SessionIds == 1..MaxSessions
NoSession == 0
NoSpiderSession == <<NoSession, "none">>
SessionStatus == {"running", "completed", "stopped", "error"}

NextSession == CHOOSE n \in SessionIds :
                  sessionCall[n] = "unused"
                  /\ \A k \in SessionIds : sessionCall[k] = "unused" => n <= k

\* The navigation tabs, 'New Spider' and onNewSpider: setCurrentView(view);
\* the Results tab is disabled without a spiderSession.
SpiderNavigate(view) ==
    /\ view \in SpiderView \ {"progress"}
    /\ view # spiderView
    /\ view = "results" => spiderSession # NoSpiderSession
    /\ spiderView' = view
    /\ UNCHANGED <<onScreen, currentSessionId, isSpiderActive, spiderProgress,
                   spiderSession, sessionCall, stopSessionCall, bkSession,
                   spiderStartFailed>>
    /\ UNCHANGED NotSpider

\* handleStartSpider up to the await, from the dashboard's form (its
\* disabled flag is the prop isActive, which ActiveSpider does not pass):
\* setIsSpiderActive(true); startSpiderSession(...)
StartSpider ==
    /\ spiderView = "dashboard"
    /\ \E n \in SessionIds : sessionCall[n] = "unused"
    /\ isSpiderActive' = TRUE
    /\ sessionCall' = [sessionCall EXCEPT ![NextSession] = "sent"]
    /\ UNCHANGED <<onScreen, spiderView, currentSessionId, spiderProgress, spiderSession,
                   stopSessionCall, bkSession, spiderStartFailed>>
    /\ UNCHANGED NotSpider

\* The backend answers POST /api/spider/start: the session runs, or an error
\* (startSpiderSession throws on !response.ok and on a network failure).
SpiderBackendStart(n, ok) ==
    /\ sessionCall[n] = "sent"
    /\ sessionCall' = [sessionCall EXCEPT ![n] = IF ok THEN "ok" ELSE "failed"]
    /\ bkSession' = IF ok THEN [bkSession EXCEPT ![n] = "running"] ELSE bkSession
    /\ UNCHANGED <<onScreen, spiderView, currentSessionId, isSpiderActive, spiderProgress,
                   spiderSession, stopSessionCall, spiderStartFailed>>
    /\ UNCHANGED NotSpider

\* The catch of handleStartSpider: setIsSpiderActive(false)
StartSpiderFailedMutant ==
    /\ isSpiderActive' = FALSE
    /\ spiderView' = "dashboard"
    /\ UNCHANGED currentSessionId

StartSpiderFailed ==
    /\ isSpiderActive' = FALSE
    /\ UNCHANGED <<currentSessionId, spiderView>>

\* handleStartSpider after the await: setCurrentSessionId(sessionId);
\* setCurrentView('progress'), or the catch.
SpiderStartSettled(n) ==
    /\ sessionCall[n] \in {"ok", "failed"}
    /\ sessionCall' = [sessionCall EXCEPT ![n] = "done"]
    /\ IF sessionCall[n] = "ok"
       THEN /\ currentSessionId' = n
            /\ spiderView' = "progress"
            /\ UNCHANGED <<isSpiderActive, spiderStartFailed>>
       ELSE /\ StartSpiderFailed
            /\ spiderStartFailed' = TRUE
    /\ UNCHANGED <<onScreen, spiderProgress, spiderSession, stopSessionCall, bkSession>>
    /\ UNCHANGED NotSpider

\* handleStopSpider up to the await (the header's Stop button is shown while
\* isSpiderActive): if (currentSessionId) stopSpiderSession(currentSessionId)
StopSpider ==
    /\ isSpiderActive
    /\ currentSessionId # NoSession
    /\ stopSessionCall[1] = "none"
    /\ stopSessionCall' = <<"sent", currentSessionId>>
    /\ UNCHANGED <<onScreen, spiderView, currentSessionId, isSpiderActive, spiderProgress,
                   spiderSession, sessionCall, bkSession, spiderStartFailed>>
    /\ UNCHANGED NotSpider

\* The backend answers POST /api/spider/stop/<id>, then handleStopSpider
\* after the await: setIsSpiderActive(false); setSpiderProgress(null);
\* setCurrentView('dashboard'), or in the catch nothing.
SpiderStopSettled(ok) ==
    /\ stopSessionCall[1] = "sent"
    /\ stopSessionCall' = <<"none", NoSession>>
    /\ IF ok
       THEN /\ bkSession' = [bkSession EXCEPT ![stopSessionCall[2]] =
                                  IF @ = "running" THEN "stopped" ELSE @]
            /\ isSpiderActive' = FALSE
            /\ spiderProgress' = NoSession
            /\ spiderView' = "dashboard"
       ELSE UNCHANGED <<bkSession, isSpiderActive, spiderProgress, spiderView>>
    /\ UNCHANGED <<onScreen, currentSessionId, spiderSession, sessionCall,
                   spiderStartFailed>>
    /\ UNCHANGED NotSpider

\* spider_progress -> notifyProgress -> every onProgress callback:
\* setSpiderProgress(progress); if (currentView !== 'progress')
\* setCurrentView('progress')
SpiderProgressEvent(n) ==
    /\ bkSession[n] = "running"
    /\ spiderProgress' = n
    /\ spiderView' = "progress"
    /\ UNCHANGED <<onScreen, currentSessionId, isSpiderActive, spiderSession, sessionCall,
                   stopSessionCall, bkSession, spiderStartFailed>>
    /\ UNCHANGED NotSpider

\* spider_session_complete -> notifySession -> every onSession callback:
\* setSpiderSession(session); setIsSpiderActive(session.status === 'running');
\* setSpiderProgress(null); if completed, setCurrentView('results')
SpiderSessionEvent(n, status, delivered) ==
    /\ bkSession[n] = "running"
    /\ bkSession' = [bkSession EXCEPT ![n] = status]
    /\ IF delivered
       THEN /\ spiderSession' = <<n, status>>
            /\ isSpiderActive' = (status = "running")
            /\ spiderProgress' = NoSession
            /\ spiderView' = IF status = "completed" THEN "results" ELSE spiderView
       ELSE UNCHANGED <<spiderSession, isSpiderActive, spiderProgress, spiderView>>
    /\ UNCHANGED <<onScreen, currentSessionId, sessionCall, stopSessionCall,
                   spiderStartFailed>>
    /\ UNCHANGED NotSpider

\* spider_error -> notifyError -> every onError callback:
\* setIsSpiderActive(false); setSpiderProgress(null)
SpiderErrorEvent(n) ==
    /\ bkSession[n] = "running"
    /\ isSpiderActive \/ spiderProgress # NoSession
    /\ isSpiderActive' = FALSE
    /\ spiderProgress' = NoSession
    /\ UNCHANGED <<onScreen, spiderView, currentSessionId, spiderSession, sessionCall,
                   stopSessionCall, bkSession, spiderStartFailed>>
    /\ UNCHANGED NotSpider

\* The user leaves the spider for Recon: ActiveSpider unmounts and its state
\* is gone (a call still in flight settles into nothing), Recon mounts.  The
\* spider's calls and backend sessions are not followed any further.
OpenRecon ==
    /\ onScreen = "spider"
    /\ onScreen' = "recon"
    /\ spiderView' = "dashboard"
    /\ currentSessionId' = NoSession
    /\ isSpiderActive' = FALSE
    /\ spiderProgress' = NoSession
    /\ spiderSession' = NoSpiderSession
    /\ sessionCall' = [n \in SessionIds |-> "unused"]
    /\ stopSessionCall' = <<"none", NoSession>>
    /\ bkSession' = [n \in SessionIds |-> "none"]
    /\ UNCHANGED spiderStartFailed
    /\ UNCHANGED NotSpider

\* The component is mounted: the useState initial values.
InitSpider ==
    /\ spiderView = "dashboard"
    /\ currentSessionId = NoSession
    /\ isSpiderActive = FALSE
    /\ spiderProgress = NoSession
    /\ spiderSession = NoSpiderSession
    /\ sessionCall = [n \in SessionIds |-> "unused"]
    /\ stopSessionCall = <<"none", NoSession>>
    /\ bkSession = [n \in SessionIds |-> "none"]
    /\ spiderStartFailed = FALSE

NextSpider ==
    \/ \E view \in SpiderView : SpiderNavigate(view)
    \/ StartSpider
    \/ \E n \in SessionIds, ok \in BOOLEAN : SpiderBackendStart(n, ok)
    \/ \E n \in SessionIds : SpiderStartSettled(n)
    \/ StopSpider
    \/ \E ok \in BOOLEAN : SpiderStopSettled(ok)
    \/ \E n \in SessionIds : SpiderProgressEvent(n)
    \/ \E n \in SessionIds, status \in SessionStatus, delivered \in BOOLEAN :
          SpiderSessionEvent(n, status, delivered)
    \/ \E n \in SessionIds : SpiderErrorEvent(n)
    \/ OpenRecon

\* The module on screen runs: the spider, then Recon.
NextStart ==
    \/ onScreen = "spider" /\ NextSpider
    \/ onScreen = "recon" /\ NextRecon

-----------------------------------------------------------------------------
(***************************************************************************)
(* ReplayForge and RequestTabs                                             *)
(* Two sources of ReplayForge.tsx are in the repository: the initial-tab   *)
(* effect of "length_dep" depends on tabs.length, the one of "mount_only"  *)
(* does not.  The component stays mounted and its prop initialRequest does *)
(* not change.  The backend gives every tab it creates a fresh id; the tab *)
(* of the n-th createTab call has id n.  A request is its method and url.  *)
(* React runs a render's pending effect before the next render, so no      *)
(* handler runs while the initial-tab effect is due.                       *)
(***************************************************************************)
ReplayVariants == {"length_dep", "mount_only"}
TabIds == 1..MaxTabs
NoTab == 0
NotRun == -1

Methods == {"GET", "POST"}
Urls == {"https://example.com", "https://target/login"}

\* createNewTab's defaults: { method: 'GET', url: 'https://example.com', ... }
DefaultRequestData == [method |-> "GET", url |-> "https://example.com"]

\* What createNewTab is called with: the fields given, and their values.
NoRequestData == [given |-> {}, method |-> "", url |-> ""]
InitialRequests ==
    { NoRequestData,
      [given |-> {"method", "url"}, method |-> "POST", url |-> "https://target/login"] }

\* { ...defaults, ...reqData }
fullRequest(reqData) ==
    [method |-> IF "method" \in reqData.given THEN reqData.method
                ELSE DefaultRequestData.method,
     url |-> IF "url" \in reqData.given THEN reqData.url ELSE DefaultRequestData.url]

NullResponse == [kind |-> "null"]
\* result.response of a reply, and the errorResponse of handleSend's catch
BackendResponse == [kind |-> "backend", status_code |-> 200, error |-> "none"]
ErrorResponse == [kind |-> "synthetic", status_code |-> 0,
                  error |-> "Error: Failed to send request"]

\* { ...prev, [k]: v } and delete n[k]
Put(map, k, v) == [x \in DOMAIN map \cup {k} |-> IF x = k THEN v ELSE map[x]]
Remove(map, k) == [x \in DOMAIN map \ {k} |-> map[x]]
EmptyMap == [x \in {} |-> NoTab]

OpenTabs == {tabs[i] : i \in DOMAIN tabs}
Filter(list, t) == SelectSeq(list, LAMBDA x : x # t)

\* useMemo selectors
HasActiveRequest == activeTabId # NoTab /\ activeTabId \in DOMAIN requests
isActivelyLoading ==
    activeTabId # NoTab /\ activeTabId \in DOMAIN loadingTabs /\ loadingTabs[activeTabId]

UnusedCalls == {c \in TabIds : createCall[c].state = "unused"}
NextCall == CHOOSE c \in UnusedCalls : \A k \in UnusedCalls : c <= k

\* The initial-tab effect has to run: after the mount, and in "length_dep"
\* after every render with a new tabs.length.
EffectDue ==
    IF rfVariant = "length_dep" THEN effectLen # Len(tabs) ELSE effectLen = NotRun

\* createNewTab up to the await: replayForgeManager.createTab(tabName, fullRequest)
createNewTab(reqData, origin) ==
    createCall' = [createCall EXCEPT ![NextCall] =
                      [state |-> "sent", origin |-> origin, request |-> fullRequest(reqData)]]

\* tabs.length === 0
NoTabsOpenMutant == TRUE

NoTabsOpen == Len(tabs) = 0

\* The initial-tab effect: if (tabs.length === 0) createNewTab(initialRequest)
RFEffect ==
    /\ EffectDue
    /\ effectLen' = Len(tabs)
    /\ IF NoTabsOpen
       THEN createNewTab(initialRequest, "effect")
       ELSE UNCHANGED createCall
    /\ rfEvent' = <<>>
    /\ UNCHANGED <<rfVariant, initialRequest, tabs, activeTabId, requests, responses,
                   loadingTabs, sendCall>>
    /\ UNCHANGED NotReplay

\* The '+' button and 'Create First Request': createNewTab()
CreateClick ==
    /\ ~EffectDue
    /\ UnusedCalls # {}
    /\ createNewTab(NoRequestData, "user")
    /\ rfEvent' = <<<<"onCreateTab", NoTab, activeTabId>>>>
    /\ UNCHANGED <<rfVariant, initialRequest, tabs, activeTabId, requests, responses,
                   loadingTabs, effectLen, sendCall>>
    /\ UNCHANGED NotReplay

\* The backend answers POST /api/replay/tabs (createTab throws on !response.ok
\* and on a network failure).
BackendCreate(c, ok) ==
    /\ createCall[c].state = "sent"
    /\ createCall' = [createCall EXCEPT ![c].state = IF ok THEN "ok" ELSE "failed"]
    /\ UNCHANGED <<rfVariant, initialRequest, tabs, activeTabId, requests, responses,
                   loadingTabs, effectLen, sendCall, rfEvent>>
    /\ UNCHANGED NotReplay

\* createNewTab after the await: the tab is appended, its request stored, it
\* becomes the active tab and its response is null; in the catch nothing.
CreateSettled(c) ==
    /\ ~EffectDue
    /\ createCall[c].state \in {"ok", "failed"}
    /\ createCall' = [createCall EXCEPT ![c].state = "done"]
    /\ IF createCall[c].state = "ok"
       THEN /\ tabs' = Append(tabs, c)
            /\ requests' = Put(requests, c, createCall[c].request)
            /\ activeTabId' = c
            /\ responses' = Put(responses, c, NullResponse)
       ELSE UNCHANGED <<tabs, requests, activeTabId, responses>>
    /\ rfEvent' = <<>>
    /\ UNCHANGED <<rfVariant, initialRequest, loadingTabs, effectLen, sendCall>>
    /\ UNCHANGED NotReplay

\* A click on a tab: onTabChange(tab.id), which is setActiveTabId
TabClick(t) ==
    /\ ~EffectDue
    /\ t \in OpenTabs
    /\ activeTabId' = t
    /\ rfEvent' = <<<<"onTabChange", t, activeTabId>>>>
    /\ UNCHANGED <<rfVariant, initialRequest, tabs, requests, responses, loadingTabs,
                   effectLen, createCall, sendCall>>
    /\ UNCHANGED NotReplay

\* remainingTabs.length > 0 ? remainingTabs[remainingTabs.length - 1].id : null
ActiveAfterCloseMutant(remainingTabs, closed) == closed

ActiveAfterClose(remainingTabs, closed) ==
    IF Len(remainingTabs) > 0 THEN remainingTabs[Len(remainingTabs)] ELSE NoTab

\* handleTabClose: the tab leaves tabs; if it was the active tab the last
\* remaining tab, or null, becomes active; its request and response are deleted.
handleTabClose(tabIdToClose) ==
    LET remainingTabs == Filter(tabs, tabIdToClose) IN
    /\ tabs' = remainingTabs
    /\ activeTabId' = IF activeTabId = tabIdToClose
                      THEN ActiveAfterClose(remainingTabs, tabIdToClose)
                      ELSE activeTabId
    /\ requests' = Remove(requests, tabIdToClose)
    /\ responses' = Remove(responses, tabIdToClose)

\* Does the close button's handler call e.stopPropagation()?
StopsPropagationMutant == FALSE

StopsPropagation == TRUE

\* The handlers a click on the close button of tab t runs: the button's, and
\* unless the event is stopped the one of the tab around it.
CloseClickPath(t) ==
    <<<<"onTabClose", t, activeTabId>>>>
        \o (IF StopsPropagation THEN <<>> ELSE <<<<"onTabChange", t, activeTabId>>>>)

\* A click on the close button of a tab: the handlers of its path run and
\* their updates are applied in order (a setActiveTabId after handleTabClose
\* is the one that stays).  In "length_dep" the tab bar is left with a tab
\* while no createTab call is left for the effect.
CloseClick(t) ==
    /\ ~EffectDue
    /\ t \in OpenTabs
    /\ (rfVariant = "length_dep" /\ Len(tabs) = 1) => UnusedCalls # {}
    /\ rfEvent' = CloseClickPath(t)
    /\ IF Len(rfEvent') = 1
       THEN handleTabClose(t)
       ELSE /\ tabs' = Filter(tabs, t)
            /\ requests' = Remove(requests, t)
            /\ responses' = Remove(responses, t)
            /\ activeTabId' = rfEvent'[2][2]
    /\ UNCHANGED <<rfVariant, initialRequest, loadingTabs, effectLen, createCall,
                   sendCall>>
    /\ UNCHANGED NotReplay

\* What the RequestEditor passes up: { ...request, url: e.target.value }
EditedRequests(request) ==
    {[request EXCEPT !.url = u] : u \in Urls \ {request.url}}

\* handleRequestUpdate, from the RequestEditor of the active tab
handleRequestUpdate(updatedRequest) ==
    /\ ~EffectDue
    /\ HasActiveRequest
    /\ updatedRequest \in EditedRequests(requests[activeTabId])
    /\ requests' = Put(requests, activeTabId, updatedRequest)
    /\ rfEvent' = <<>>
    /\ UNCHANGED <<rfVariant, initialRequest, tabs, activeTabId, responses, loadingTabs,
                   effectLen, createCall, sendCall>>
    /\ UNCHANGED NotReplay

\* handleSend up to the await (the Send button is disabled while the active
\* tab is loading): loading true and response null for the active tab, then
\* sendRequest(activeTabId, activeRequest)
handleSend ==
    /\ ~EffectDue
    /\ HasActiveRequest
    /\ ~isActivelyLoading
    /\ loadingTabs' = Put(loadingTabs, activeTabId, TRUE)
    /\ responses' = Put(responses, activeTabId, NullResponse)
    /\ sendCall' = [sendCall EXCEPT ![activeTabId] = "sent"]
    /\ rfEvent' = <<>>
    /\ UNCHANGED <<rfVariant, initialRequest, tabs, activeTabId, requests, effectLen,
                   createCall>>
    /\ UNCHANGED NotReplay

\* The backend answers POST /api/replay/tabs/<id>/send (sendRequest throws on
\* !response.ok and on a network failure).
BackendSend(t, ok) ==
    /\ sendCall[t] = "sent"
    /\ sendCall' = [sendCall EXCEPT ![t] = IF ok THEN "ok" ELSE "failed"]
    /\ UNCHANGED <<rfVariant, initialRequest, tabs, activeTabId, requests, responses,
                   loadingTabs, effectLen, createCall, rfEvent>>
    /\ UNCHANGED NotReplay

\* What handleSend stores after the await
StoredResponseMutant(outcome) == IF outcome = "ok" THEN BackendResponse ELSE NullResponse

StoredResponse(outcome) == IF outcome = "ok" THEN BackendResponse ELSE ErrorResponse

\* handleSend after the await, with the tab id the click captured: the
\* response (or the errorResponse of the catch) is stored under it, and in
\* the finally its loading flag is false.
SendSettled(t) ==
    /\ ~EffectDue
    /\ sendCall[t] \in {"ok", "failed"}
    /\ responses' = Put(responses, t, StoredResponse(sendCall[t]))
    /\ loadingTabs' = Put(loadingTabs, t, FALSE)
    /\ sendCall' = [sendCall EXCEPT ![t] = "none"]
    /\ rfEvent' = <<>>
    /\ UNCHANGED <<rfVariant, initialRequest, tabs, activeTabId, requests, effectLen,
                   createCall>>
    /\ UNCHANGED NotReplay

\* The component is mounted: the useState initial values; the effect of the
\* first render has still to run.
InitReplay ==
    /\ rfVariant \in ReplayVariants
    /\ initialRequest \in InitialRequests
    /\ tabs = <<>>
    /\ activeTabId = NoTab
    /\ requests = EmptyMap
    /\ responses = EmptyMap
    /\ loadingTabs = EmptyMap
    /\ effectLen = NotRun
    /\ createCall = [c \in TabIds |->
                        [state |-> "unused", origin |-> "none", request |-> DefaultRequestData]]
    /\ sendCall = [t \in TabIds |-> "none"]
    /\ rfEvent = <<>>

NextReplay ==
    \/ RFEffect
    \/ CreateClick
    \/ \E c \in TabIds, ok \in BOOLEAN : BackendCreate(c, ok)
    \/ \E c \in TabIds : CreateSettled(c)
    \/ \E t \in TabIds : TabClick(t)
    \/ \E t \in TabIds : CloseClick(t)
    \/ \E r \in [method : Methods, url : Urls] : handleRequestUpdate(r)
    \/ handleSend
    \/ \E t \in TabIds, ok \in BOOLEAN : BackendSend(t, ok)
    \/ \E t \in TabIds : SendSettled(t)

-----------------------------------------------------------------------------
(***************************************************************************)
(* Specifications                                                          *)
(***************************************************************************)
\* A subsystem that a specification does not exercise rests in one initial state.
RestWS == InitWS /\ mgr = "crawler" /\ backendUp
RestProxy == InitProxy
RestMgr == InitMgr
RestRaider == InitRaider /\ rdVariant = "v2"
RestElectron == InitElectron /\ platform = "linux"
RestRecon == InitRecon
RestApp == InitApp /\ appVariant = "two_targets" /\ nIntercepted = 0

RestSpider == InitSpider /\ onScreen = "spider"

RestReplay == InitReplay /\ rfVariant = "mount_only" /\ initialRequest = NoRequestData

WSInit == InitWS /\ RestProxy /\ RestMgr /\ RestRaider /\ RestElectron /\ RestRecon /\ RestApp /\ RestSpider /\ RestReplay
ProxyInit == InitProxy /\ RestWS /\ RestMgr /\ RestRaider /\ RestElectron /\ RestRecon /\ RestApp /\ RestSpider /\ RestReplay
MgrInit == InitMgr /\ RestWS /\ RestProxy /\ RestRaider /\ RestElectron /\ RestRecon /\ RestApp /\ RestSpider /\ RestReplay
ElectronInit == InitElectron /\ RestWS /\ RestProxy /\ RestMgr /\ RestRaider /\ RestRecon /\ RestApp /\ RestSpider /\ RestReplay
ReconInit ==
    /\ InitRecon
    /\ InitWS /\ mgr = "recon" /\ backendUp
    /\ RestProxy /\ RestMgr /\ RestRaider /\ RestElectron /\ RestApp /\ RestReplay
    /\ InitSpider /\ onScreen = "recon"
AppInit ==
    /\ InitApp
    /\ RestWS /\ RestProxy /\ RestMgr /\ RestRaider /\ RestElectron /\ RestRecon /\ RestSpider /\ RestReplay
RaiderInit == InitRaider /\ RestWS /\ RestProxy /\ RestMgr /\ RestElectron /\ RestRecon /\ RestApp /\ RestSpider /\ RestReplay

StartInit ==
    /\ InitSpider /\ onScreen = "spider"
    /\ InitRecon
    /\ InitWS /\ mgr = "recon" /\ backendUp
    /\ RestProxy /\ RestMgr /\ RestRaider /\ RestElectron /\ RestApp /\ RestReplay

ReplayInit ==
    /\ InitReplay
    /\ RestWS /\ RestProxy /\ RestMgr /\ RestRaider /\ RestElectron /\ RestRecon /\ RestApp /\ RestSpider

\* The managers' dispatch and connection handling.
SpecWS == WSInit /\ [][NextWS]_vars

\* The connection life cycle alone, with the scheduling the browser gives:
\* a due timer fires, a connection attempt resolves, a close completes.
FairWS ==
    /\ WSInit
    /\ [][NextConn]_vars
    /\ WF_vars(TimerFire)
    /\ WF_vars(\E s \in SocketIds : SocketOpen(s))
    /\ WF_vars(\E s \in SocketIds : ConnectFail(s))
    /\ WF_vars(\E s \in SocketIds : CloseComplete(s))

\* ProxyManager and the App state fed by its events.
SpecProxy == ProxyInit /\ [][NextProxy]_vars

\* The managers being constructed, in any order.
SpecMgr == MgrInit /\ [][NextMgr]_vars

\* The Electron main process with its window, menu and IPC events.
SpecElectron == ElectronInit /\ [][NextElectron]_vars

\* App with TrafficViewer, the sidebar and the backend's traffic.
SpecApp == AppInit /\ [][NextApp]_vars

\* ... where a due effect runs.
FairApp == AppInit /\ [][NextApp]_vars /\ WF_vars(AppEffect)

\* The Recon component on its manager, with the backend's answers and events.
SpecRecon == ReconInit /\ [][NextRecon]_vars

\* ... where a call in flight is answered and the answer handled, a pending
\* effect runs, and the connection events and the reconnect timer happen.
\* Clicks and the backend's events are not forced.
FairRecon ==
    /\ ReconInit
    /\ [][NextRecon]_vars
    /\ WF_vars(ReconEffect)
    /\ WF_vars(HistoryLoaded)
    /\ WF_vars(\E n \in ScanIds, ok \in BOOLEAN : BackendStart(n, ok))
    /\ WF_vars(\E n \in ScanIds : StartSettled(n))
    /\ WF_vars(\E ok \in BOOLEAN : StopScanSettled(ok))
    /\ WF_vars(\E ok \in BOOLEAN : ViewSettled(ok))
    /\ WF_vars(\E s \in SocketIds : SocketOpen(s))
    /\ WF_vars(\E s \in SocketIds : CloseComplete(s))
    /\ WF_vars(TimerFire)

\* The spider and Recon modules, one on screen at a time.
SpecStart == StartInit /\ [][NextStart]_vars

\* The ReplayForge component with its tab bar and the backend's answers.
SpecReplay == ReplayInit /\ [][NextReplay]_vars

\* The effect runs, and every call is answered and its answer handled.
FairReplay ==
    /\ ReplayInit
    /\ [][NextReplay]_vars
    /\ WF_vars(RFEffect)
    /\ \A c \in TabIds : WF_vars(\E ok \in BOOLEAN : BackendCreate(c, ok))
    /\ \A c \in TabIds : WF_vars(CreateSettled(c))
    /\ \A t \in TabIds : WF_vars(\E ok \in BOOLEAN : BackendSend(t, ok))
    /\ \A t \in TabIds : WF_vars(SendSettled(t))

\* The Raider component with the backend's answers and events.
SpecRaider == RaiderInit /\ [][NextRaider]_vars

\* ... where a call in flight is answered, the answer is handled, and a
\* pending effect runs.  Clicks and the backend's events are not forced.
FairRaider ==
    /\ RaiderInit
    /\ [][NextRaider]_vars
    /\ WF_vars(\E n \in AttackIds : BackendAccept(n) \/ BackendReject(n))
    /\ WF_vars(\E n \in AttackIds : LaunchSettled(n))
    /\ WF_vars(RaiderEffect)
    /\ WF_vars(\E ok \in BOOLEAN : StopSettled(ok))

-----------------------------------------------------------------------------
(***************************************************************************)
(* Claims about the WebSocket managers                                     *)
(***************************************************************************)

\* The event class each message type stands for (the on<Class> method whose
\* callbacks it is meant to reach).
EventClassOf(t) ==
    CASE t = "traffic_analyzed"        -> "entry"
      [] t = "session_complete"        -> "session"
      [] t = "statistics_update"       -> "statistics"
      [] t = "recon_progress"          -> "progress"
      [] t = "recon_complete"          -> "completion"
      [] t = "spider_progress"         -> "progress"
      [] t = "spider_result"           -> "result"
      [] t = "spider_session_complete" -> "session"
      [] t = "spider_statistics"       -> "statistics"
      [] t = "map_updated"             -> "mapUpdate"
      [] t = "node_discovered"         -> "nodeUpdate"
      [] t = "analysis_complete"       -> "analysis"
      [] OTHER                         -> "error"

\* C1: a parsed message is dispatched by its type alone: a type the manager
\* recognises invokes every callback registered for that event class exactly
\* once, in registration order, with the message's data (data.message for the
\* error class) and no callback of another class; any other type invokes no
\* callback.
C1_DispatchByType ==
    [][msgTick' # msgTick =>
        IF lastMsg'.type \in BackendTypes(mgr)
        THEN LET c == EventClassOf(lastMsg'.type)
                 arg == IF c = "error" THEN lastMsg'.data.message
                                       ELSE lastMsg'.data
             IN /\ Len(calls') = Len(callbacks[c])
                /\ \A i \in 1..Len(calls') :
                      /\ calls'[i].class = c
                      /\ calls'[i].callback = callbacks[c][i]
                      /\ calls'[i].arg = arg
        ELSE calls' = <<>>]_vars

\* Two callbacks of one class were invoked by a recognised message.
C1_Witness ==
    /\ lastMsg.type \in BackendTypes(mgr)
    /\ Len(calls) = 2
    /\ calls[1].callback # calls[2].callback

SocketClosed == \E s \in SocketIds : sockets[s] # "free" /\ sockets'[s] = "free"
SocketCreated == \E s \in SocketIds : sockets[s] = "free" /\ sockets'[s] = "connecting"

\* C2: every close of the socket schedules one reconnect timer; when a timer
\* fires a new socket is opened if and only if the manager is not connected;
\* and if the backend eventually accepts connections for good, a manager that
\* is not connected eventually is connected.
C2_Reconnect ==
    /\ [][SocketClosed => timers' = timers + 1]_vars
    /\ [][timers' < timers => (SocketCreated <=> ~isConnected)]_vars
    /\ (<>[]backendUp) => [](~isConnected => <>isConnected)

\* The manager was disconnected, the timer opened a new socket and it connected.
C2_Witness ==
    /\ nDisconnects >= 1
    /\ websocket # NoSocket
    /\ isConnected

-----------------------------------------------------------------------------
(***************************************************************************)
(* Claims about ProxyManager and App.proxyStatus                           *)
(***************************************************************************)

\* C4: startProxy() and stopProxy() never change App.proxyStatus themselves,
\* whatever the outcome of the HTTP call: the status changes only in the
\* status_update handler and in the disconnect handler.
C4_StatusOnlyFromEvents ==
    [][proxyStatus' # proxyStatus => pmEvent'[1] \in {"status_update", "disconnect"}]_vars

\* A start call has failed with an HTTP error and the UI still shows the status
\* it showed before the call.
C4_Witness ==
    /\ pmEvent = <<"http_error", "start">>
    /\ pmSocket = "connected"
    /\ proxyStatus = "stopped"
    /\ prevStatus = "stopped"

\* C7: every 'connect' emits get_proxy_status exactly once; every 'disconnect'
\* leaves the UI showing 'stopped'; and the UI leaves 'stopped' only in a
\* status_update handler, so it shows 'stopped' from a disconnect until the
\* next status_update.
C7_ConnectAndDisconnect ==
    /\ [][pmEvent'[1] = "connect" <=> pmEmitted' = pmEmitted + 1]_vars
    /\ [][pmEvent'[1] = "disconnect" => proxyStatus' = "stopped"]_vars
    /\ [][proxyStatus = "stopped" /\ proxyStatus' # "stopped"
            => pmEvent'[1] = "status_update"]_vars

\* A disconnect took the UI from 'running' to 'stopped' after a reconnect.
C7_Witness ==
    /\ pmEvent[1] = "disconnect"
    /\ prevStatus = "running"
    /\ proxyStatus = "stopped"
    /\ pmEmitted = 2

-----------------------------------------------------------------------------
(***************************************************************************)
(* Claims about the manager classes                                        *)
(***************************************************************************)
Constructed == {m \in ManagerClasses : built[m] # Absent}

\* C3 as stated: each of the eight managers opens a WebSocket or Socket.IO
\* connection when constructed and exposes callback-registration methods, and
\* wraps REST calls with fetch.
C3_AllManagersConnect ==
    \A m \in Constructed :
        /\ built[m].connection \in {"websocket", "socket.io"}
        /\ built[m].registration \cup built[m].handlerFields # {}
        /\ built[m].rest # {}

\* C3 amended: Crawler, Spider, Recon and Cartographer open a WebSocket when
\* constructed and expose on* registration methods; Proxy opens a Socket.IO
\* connection and exposes assignable handler fields; ReplayForge, Raider and
\* Portal open no connection and expose no callbacks; all eight wrap REST calls.
C3_FiveManagersConnect ==
    \A m \in Constructed :
        /\ built[m].connection = "websocket"
              <=> m \in {"crawler", "spider", "recon", "cartographer"}
        /\ built[m].connection = "socket.io" <=> m = "proxy"
        /\ built[m].registration # {}
              <=> m \in {"crawler", "spider", "recon", "cartographer"}
        /\ built[m].handlerFields # {} <=> m = "proxy"
        /\ built[m].rest # {}

\* All eight managers have been constructed.
C3_Witness == Constructed = ManagerClasses

-----------------------------------------------------------------------------
(***************************************************************************)
(* Claims about Raider                                                     *)
(***************************************************************************)

\* C6: whenever the backend has emitted raider_attack_status for an attack
\* launched from the component, the component eventually is not attacking,
\* whatever the order of the launch response and the status event.
C6_StatusEndsAttack ==
    \A a \in AttackIds :
        <>(a \in statusEmitted) => <>(a \in statusEmitted /\ ~isAttacking)

\* C8: the attack_type of every launch request sent is a type the
\* RaiderAttackRequest of RaiderManager accepts (the request carries the type
\* selected in the UI, and every selectable type is meant to be accepted).
C8_SentTypeAccepted ==
    \A n \in AttackIds :
        launch[n] # "unused" =>
            /\ launchType[n] \in SelectableTypes(rdVariant)
            /\ launchType[n] \in AcceptedAttackTypes

-----------------------------------------------------------------------------
(***************************************************************************)
(* Claims about the Electron main process                                  *)
(***************************************************************************)

\* C9: closing the last window quits the app exactly when the platform is
\* not macOS; an 'activate' event creates a main window only when no window
\* is open; so there is never more than one window.
C9_WindowLifecycle ==
    /\ [](elWindows <= 1)
    /\ [][elEvent'[1] = "window-all-closed" /\ elWindows' # elWindows
            => (appState' = "quit" <=> platform # "darwin")]_vars
    /\ [][elWindows' > elWindows /\ elEvent'[1] = "activate" => elWindows = 0]_vars

C9_Witness ==
    /\ platform = "darwin"
    /\ elEvent = <<"activate", "created">>
    /\ elWindows = 1

\* C10: every channel the preload bridge invokes has a handler in the main
\* process (no invoke is rejected for lack of one), and every channel the
\* menu has sent, or can send, has a listener-registration function in the
\* preload bridge.
C10_ChannelsCovered ==
    /\ appState = "ready" => PreloadInvokes \subseteq ipcHandlers
    /\ \A c \in PreloadInvokes : invokeResult[c] # "rejected"
    /\ menuSent \cup appMenu \subseteq PreloadListeners

C10_Witness ==
    /\ menuSent = MenuChannels
    /\ \A c \in PreloadInvokes : invokeResult[c] = "resolved"

-----------------------------------------------------------------------------
(***************************************************************************)
(* Claims about Recon                                                      *)
(***************************************************************************)

\* C5: once the backend has sent recon_complete for a scan the user started,
\* the component eventually shows the 'results' view with isScanning false
\* and scanResults set to that scan's result.
C5_CompleteShowsResults ==
    \A n \in ScanIds :
        <>(n \in completeSent)
            => <>(currentView = "results" /\ ~isScanning /\ scanResults = n)

-----------------------------------------------------------------------------
(***************************************************************************)
(* Claims about App and TrafficViewer                                      *)
(***************************************************************************)

\* C11: a request handed to Replay Forge (Raider) is consumed.  Once the
\* current view is not replay_forge (raider) the pending request becomes
\* null; the view is entered with a pending request only by a new hand-off;
\* and while the view stays current its pending request is not changed.
C11_RequestConsumed ==
    /\ (appView # "replay_forge" /\ requestForReplay # NoRequest)
            ~> (requestForReplay = NoRequest)
    /\ (appView # "raider" /\ requestForRaider # NoRequest)
            ~> (requestForRaider = NoRequest)
    /\ [][appView # "replay_forge" /\ appView' = "replay_forge"
              /\ requestForReplay' # NoRequest
            => appEvent'[1] = "send_to_replay_forge"]_vars
    /\ [][appView # "raider" /\ appView' = "raider" /\ requestForRaider' # NoRequest
            => appEvent'[1] = "send_to_raider"]_vars
    /\ [][appView = "replay_forge" /\ appView' = "replay_forge"
            => requestForReplay' = requestForReplay]_vars
    /\ [][appView = "raider" /\ appView' = "raider"
            => requestForRaider' = requestForRaider]_vars

\* The consume effect has just reset a request that was handed to Replay Forge.
C11_Witness ==
    /\ appVariant = "replay_only"
    /\ appEvent[1] = "consume_effect"
    /\ consumeDue
    /\ appView # "replay_forge"
    /\ requestForReplay = NoRequest

\* C12: while the traffic view is shown with the live feed on, the rows are
\* displayed newest first.
C12_LiveNewestFirst ==
    (appView = "traffic" /\ isLive) =>
        \A i, j \in 1..Len(Displayed) : i < j => Displayed[i] > Displayed[j]

\* C13: while the live feed is paused, a new_traffic event leaves every
\* displayed row at its position.
C13_PausedListDoesNotShift ==
    [][appView = "traffic" /\ ~isLive /\ ~isLive' /\ appEvent'[1] = "new_traffic"
            /\ traffic' # traffic
         => \A i \in 1..Len(Displayed) :
                i <= Len(Displayed') /\ Displayed'[i] = Displayed[i]]_vars

-----------------------------------------------------------------------------
(***************************************************************************)
(* More claims about Raider                                                *)
(***************************************************************************)

\* C14: a result event is added to the results list only when its attack_id
\* is the component's active attack at that moment, and a launch empties the
\* list, so that no result of the attack it starts is in it yet.
C14_ResultsOfActiveAttack ==
    /\ [][Len(results') > Len(results)
            => results'[Len(results')].attack_id = activeAttackId]_vars
    /\ [][(\E n \in AttackIds : launch[n] = "unused" /\ launch'[n] = "sent")
            => results' = <<>>]_vars

-----------------------------------------------------------------------------
(***************************************************************************)
(* Claims about the optimistic starts of ActiveSpider and Recon            *)
(***************************************************************************)
\* C15: starting a spider session or a recon scan marks the UI active in the
\* step that sends the REST call, before the call resolves.  When a failed
\* call is handled the UI is inactive again, and the recorded session or scan
\* id and the current view are what they were; an id that is recorded is
\* always one the backend accepted.
C15_OptimisticStart ==
    /\ [][\A n \in SessionIds :
            sessionCall[n] = "unused" /\ sessionCall'[n] = "sent" => isSpiderActive']_vars
    /\ [][\A n \in SessionIds :
            sessionCall[n] = "failed" /\ sessionCall'[n] = "done" /\ onScreen' = "spider"
                => /\ ~isSpiderActive'
                   /\ currentSessionId' = currentSessionId
                   /\ spiderView' = spiderView]_vars
    /\ [](currentSessionId # NoSession => bkSession[currentSessionId] # "none")
    /\ [][\A n \in ScanIds :
            startCall[n] = "unused" /\ startCall'[n] = "sent" => isScanning']_vars
    /\ [][\A n \in ScanIds :
            startCall[n] = "failed" /\ startCall'[n] = "done"
                => /\ ~isScanning'
                   /\ currentScanId' = currentScanId
                   /\ currentView' = currentView]_vars
    /\ [](currentScanId # NoScan => bkScan[currentScanId] # "none")

\* C15 witness: a failed spider start has been handled, and Recon has handled
\* a failed scan start: the call is done, the backend holds no such scan, and
\* the UI is inactive with no scan id on the new_scan view.
C15_Witness ==
    /\ spiderStartFailed
    /\ onScreen = "recon"
    /\ \E n \in ScanIds : startCall[n] = "done" /\ bkScan[n] = "none"
    /\ ~isScanning
    /\ currentScanId = NoScan
    /\ currentView = "new_scan"

-----------------------------------------------------------------------------
(***************************************************************************)
(* Claims about ReplayForge                                                *)
(***************************************************************************)
EffectCalls == {c \in TabIds : createCall[c].origin = "effect"}
\* The request initialRequest stands for: itself, or the default GET of
\* https://example.com when it is null.
Seed ==
    IF initialRequest = NoRequestData
    THEN [method |-> "GET", url |-> "https://example.com"]
    ELSE [method |-> initialRequest.method, url |-> initialRequest.url]

\* The effect calls createNewTab only in a render without tabs, once per run.
EffectOnlyWithoutTabs ==
    [][EffectCalls' # EffectCalls
          => /\ Len(tabs) = 0
             /\ Cardinality(EffectCalls') = Cardinality(EffectCalls) + 1]_vars

\* C16 as stated: whenever the initial-tab effect runs without tabs, a tab of
\* its own, seeded from initialRequest or the default request, comes to be
\* open, and the effect never creates a tab while a tab exists.
C16_EffectAlwaysCreatesTab ==
    /\ EffectOnlyWithoutTabs
    /\ [](\A c \in EffectCalls : createCall[c].request = Seed)
    /\ \A c \in TabIds : [](c \in EffectCalls => <>(c \in OpenTabs))

\* C16, amended: the effect calls createNewTab only in a render without tabs,
\* once per run, with initialRequest or the default request; every call is
\* settled; when the backend has created the tab the settling appends exactly
\* that tab, stores its request and makes it active, and when createTab has
\* failed the tab bar stays as it is.  In "mount_only" the effect creates at
\* most one tab, the one of the mount.
C16_InitialTab ==
    /\ EffectOnlyWithoutTabs
    /\ [](\A c \in EffectCalls : createCall[c].request = Seed)
    /\ [](rfVariant = "mount_only" => Cardinality(EffectCalls) <= 1)
    /\ [][\A c \in TabIds :
            createCall[c].state = "ok" /\ createCall'[c].state = "done"
                => /\ tabs' = Append(tabs, c)
                   /\ requests'[c] = createCall[c].request
                   /\ activeTabId' = c]_vars
    /\ [][\A c \in TabIds :
            createCall[c].state = "failed" /\ createCall'[c].state = "done"
                => UNCHANGED <<tabs, activeTabId, requests>>]_vars
    /\ \A c \in TabIds : [](c \in EffectCalls => <>(createCall[c].state = "done"))

\* C16 witness: the tab the effect created from a given initialRequest is the
\* only tab, holds that request and is active.
C16_Witness ==
    /\ initialRequest # NoRequestData
    /\ \E c \in EffectCalls :
          /\ tabs = <<c>>
          /\ activeTabId = c
          /\ requests[c] = [method |-> "POST", url |-> "https://target/login"]

C18_MapsHoldOpenTabsOnly ==
    /\ DOMAIN requests \subseteq OpenTabs
    /\ DOMAIN responses \subseteq OpenTabs

\* C19: a click on the close button of a tab calls onTabClose for that tab
\* and calls nothing else; when the tab is not the active one activeTabId
\* stays what it was.
C19_CloseCallsOnTabCloseOnly ==
    [][(rfEvent' # rfEvent /\ rfEvent' # <<>> /\ rfEvent'[1][1] = "onTabClose")
          => /\ Len(rfEvent') = 1
             /\ rfEvent'[1][2] \in OpenTabs \ OpenTabs'
             /\ OpenTabs' = OpenTabs \ {rfEvent'[1][2]}
             /\ (rfEvent'[1][2] # activeTabId => activeTabId' = activeTabId)]_vars

\* C19 witness: of two open tabs the one that is not active has just been
\* closed, and the active tab is still the active one.
C19_Witness ==
    /\ Len(rfEvent) = 1
    /\ rfEvent[1][1] = "onTabClose"
    /\ rfEvent[1][3] # rfEvent[1][2]
    /\ Len(tabs) = 1
    /\ activeTabId = rfEvent[1][3]
    /\ activeTabId = tabs[1]

\* C20: a tab is loading while its send is in flight and every send is
\* settled; the step that settles the send of a tab leaves that tab with
\* loading false and with the backend's response, or
\* with the status_code 0 response that carries the error text when the call
\* failed, whichever tab is active, and does not change the active tab.
C20_SendSettles ==
    /\ [][\A t \in TabIds :
            (sendCall[t] \in {"ok", "failed"} /\ sendCall'[t] = "none")
                => /\ loadingTabs'[t] = FALSE
                   /\ responses'[t] # NullResponse
                   /\ sendCall[t] = "ok" => responses'[t].kind = "backend"
                   /\ sendCall[t] = "failed"
                        => /\ responses'[t].status_code = 0
                           /\ responses'[t].error # "none"
                   /\ activeTabId' = activeTabId]_vars
    /\ [](\A t \in TabIds : sendCall[t] # "none"
            => t \in DOMAIN loadingTabs /\ loadingTabs[t])
    /\ \A t \in TabIds : (sendCall[t] = "sent") ~> (sendCall[t] = "none")

\* C20 witness: a send of a tab has failed and been settled while another tab
\* was active: the tab is not loading and holds the status_code 0 response.
C20_Witness ==
    \E t \in OpenTabs :
        /\ t # activeTabId
        /\ sendCall[t] = "none"
        /\ t \in DOMAIN loadingTabs
        /\ loadingTabs[t] = FALSE
        /\ responses[t] = ErrorResponse

====
